---- MODULE Spec2Model ----
(***************************************************************************)
(* Tooley lesson-plan bot (src/bot.py) and its HTTP variant (src/api.py). *)
(*                                                                         *)
(* The bot is a python-telegram-bot Application built without             *)
(* concurrent_updates, so one update is handled to completion before the  *)
(* next one starts: every handler is one atomic action.  The lesson       *)
(* library is a JSON file behind the GitHub contents API and is shared    *)
(* with other writers, so save_lesson_to_github is modelled step by step. *)
(***************************************************************************)
EXTENDS Integers, Sequences, FiniteSets, TLC

VARIABLES
    user_sessions,   \* bot.py:1523  user id -> session dict (created lazily)
    GITHUB_TOKEN,    \* bot.py:102   TRUE when the environment sets a token
    groq_client,     \* bot.py:394   TRUE when the transcription client exists
    lessons_file,    \* the remote lessons.json blob (absent, garbage or a list)
    sent,            \* what the handler that ran last sent to the chat
    raised,          \* TRUE when the handler that ran last let an exception escape
    backend_calls,   \* generation-backend requests made by the handler that ran last
    pdf_result,      \* outcome of the PDF renderer call made last
    appenders,       \* the save_lesson_to_github calls in flight (process -> frame)
    strays,          \* events so far that the prompt on screen did not ask for
    update,          \* the update or request that was handled last
    generation,      \* the generate_lesson call made last, with the prompt it built
    rendering        \* the renderer call made last on a lesson text, with its blocks

vars == <<user_sessions, GITHUB_TOKEN, groq_client, lessons_file, sent, raised,
          backend_calls, pdf_result, appenders, strays, update, generation,
          rendering>>

----------------------------------------------------------------------------
(* Values *)

None == "None"

\* A callback_data string, kept as <<prefix, rest>> so that startswith() and
\* replace(prefix, "") can be computed.
Tok(prefix, rest) == <<prefix, rest>>
startswith(data, prefix) == data[1] = prefix
strip_prefix(data) == data[2]
is_token(data, whole) == data = Tok(whole, "")

\* dict helpers: a params dict is a function whose domain is its key set.
EmptyDict == [k \in {} |-> None]
dict_set(d, key, value) ==
    [k \in (DOMAIN d) \cup {key} |-> IF k = key THEN value ELSE d[k]]
dict_get(d, key, default) == IF key \in DOMAIN d THEN d[key] ELSE default
\* d.get(key) used as a condition: present and truthy
dict_truthy(d, key) == key \in DOMAIN d /\ d[key] # "" /\ d[key] # None

Min(a, b) == IF a < b THEN a ELSE b

----------------------------------------------------------------------------
(* Session store *)

NewSession ==
    [params |-> EmptyDict, state |-> "idle", last_lesson |-> None,
     pending_share |-> FALSE]

\* get_session: the session of user_id, created with the defaults when missing
get_session(sessions, user_id) ==
    IF user_id \in DOMAIN sessions THEN sessions[user_id] ELSE NewSession

\* a session map whose users all share one session dict
put_session_shared(sessions, user_id, session) ==
    [u \in (DOMAIN sessions) \cup {user_id} |-> session]

\* the session map after a handler left `session` in user_id's slot
put_session(sessions, user_id, session) ==
    [u \in (DOMAIN sessions) \cup {user_id} |->
        IF u = user_id THEN session ELSE sessions[u]]

----------------------------------------------------------------------------
(* Topic catalogue (a two-category excerpt of one subject's pool) *)

TOPIC_POOLS ==
    [Mathematics |->
        ("Fractions & Decimals" :> {"Introduction to Fractions"}) @@
        ("Geometry & Measurement" :> {"Basic Shapes"})]

get_topic_categories(subject) ==
    IF subject \notin DOMAIN TOPIC_POOLS THEN {} ELSE DOMAIN TOPIC_POOLS[subject]

get_topics_in_category(subject, category) ==
    IF subject \notin DOMAIN TOPIC_POOLS THEN {}
    ELSE IF category \in DOMAIN TOPIC_POOLS[subject]
         THEN TOPIC_POOLS[subject][category] ELSE {}

\* the pool holds fewer than `count` topics, so the sample is the whole pool
get_random_topics(subject) ==
    IF subject \notin DOMAIN TOPIC_POOLS THEN {}
    ELSE UNION {TOPIC_POOLS[subject][c] : c \in DOMAIN TOPIC_POOLS[subject]}

----------------------------------------------------------------------------
(* Lesson texts the generation backend may return, with their lengths *)

LessonTexts == {"L1", "L2", "L3"}
len(text) ==
    IF text = "L1" THEN 1500 ELSE IF text = "L2" THEN 9000
    ELSE IF text = "L3" THEN 4050 ELSE 0

\* Telegram refuses a message text longer than this: the send raises
MAX_MESSAGE_LENGTH == 4096

\* build_selection_summary: its length grows with the fields that are set
SummaryFields == {"subject", "topic", "ages", "duration", "country", "materials", "style"}
summary_len(params) == 40 + 30 * Cardinality({k \in SummaryFields : dict_truthy(params, k)})

----------------------------------------------------------------------------
(* Chat output *)

NoLesson == <<>>
\* text[from:to] of a lesson text
Slice(text, from, to) == <<text, from, Min(to, len(text))>>

\* one message, edit or document sent to the chat
Msg(kind, text, keyboard) ==
    [kind |-> kind, text |-> text, lesson |-> NoLesson, extra |-> 0, keyboard |-> keyboard]
\* a message whose text is `extra` characters of other text plus a lesson slice
LessonMsg(kind, text, extra, slice, keyboard) ==
    [kind |-> kind, text |-> text, lesson |-> slice, extra |-> extra, keyboard |-> keyboard]

\* [lesson_content[i:i+4000] for i in range(0, len(lesson_content), 4000)]
RECURSIVE chunks_from(_, _)
chunks_from(text, i) ==
    IF i >= len(text) THEN <<>>
    ELSE <<LessonMsg("message", "chunk", 0, Slice(text, i, i + 4000), {})>>
         \o chunks_from(text, i + 4000)

----------------------------------------------------------------------------
(* PDF rendering *)

\* which of the renderer's layouts raise in this call (an fpdf error)
PdfFaults == [branded : BOOLEAN, fallback : BOOLEAN]
NoFaults == [branded |-> FALSE, fallback |-> FALSE]

\* bot.py create_lesson_pdf: the branded LessonPDF inside try; the except
\* branch builds a plain FPDF ("Tooley - Lesson Plan", first 50 lines) outside
\* any try, so an error there leaves the function.
create_lesson_pdf(content, params, faults) ==
    IF ~faults.branded THEN [doc |-> "branded", raised |-> FALSE]
    ELSE IF ~faults.fallback THEN [doc |-> "fallback", raised |-> FALSE]
    ELSE [doc |-> None, raised |-> TRUE]

\* api.py create_pdf: one layout, no try at all
create_pdf(content, params, faults) ==
    IF ~faults.branded THEN [doc |-> "branded", raised |-> FALSE]
    ELSE [doc |-> None, raised |-> TRUE]

----------------------------------------------------------------------------
(* Line rendering: LessonPDF.add_lesson_content and create_lesson_html of
   bot.py, create_pdf of api.py *)

\* A text is a sequence of characters.  An ASCII character is itself; the
\* characters outside ASCII are named.
NL == "nl"
NonAscii == {"bullet", "e_acute", "arrow", "en_dash", "snowman", "chr149"}
Whitespace == {" ", NL}
Digits == {"0", "1", "2", "3", "4", "5", "6", "7", "8", "9"}

\* str.lstrip(chars), str.rstrip(chars), str.strip(chars)
RECURSIVE str_lstrip(_, _)
str_lstrip(s, chars) ==
    IF s # <<>> /\ Head(s) \in chars THEN str_lstrip(Tail(s), chars) ELSE s
RECURSIVE str_rstrip(_, _)
str_rstrip(s, chars) ==
    IF s # <<>> /\ s[Len(s)] \in chars
    THEN str_rstrip(SubSeq(s, 1, Len(s) - 1), chars) ELSE s
str_strip(s, chars) == str_rstrip(str_lstrip(s, chars), chars)

\* str.startswith, str.endswith, s[n:]
str_startswith(s, prefix) ==
    Len(s) >= Len(prefix) /\ SubSeq(s, 1, Len(prefix)) = prefix
str_endswith(s, suffix) ==
    Len(s) >= Len(suffix) /\ SubSeq(s, Len(s) - Len(suffix) + 1, Len(s)) = suffix
str_from(s, n) == SubSeq(s, n + 1, Len(s))

\* content.split('\n')
RECURSIVE split(_)
split(s) ==
    IF \E i \in DOMAIN s : s[i] = NL
    THEN LET i == CHOOSE k \in DOMAIN s : s[k] = NL /\ \A j \in 1..(k - 1) : s[j] # NL
         IN <<SubSeq(s, 1, i - 1)>> \o split(SubSeq(s, i + 1, Len(s)))
    ELSE <<s>>

\* for old, new in replacements.items(): text = text.replace(old, new),
\* every key being one character and no value holding a key
RECURSIVE replace_each(_, _)
replace_each(text, replacements) ==
    IF text = <<>> THEN <<>>
    ELSE (IF Head(text) \in DOMAIN replacements THEN replacements[Head(text)]
          ELSE <<Head(text)>>)
         \o replace_each(Tail(text), replacements)

\* safe_line.replace('**', '')
RECURSIVE remove_double_star(_)
remove_double_star(s) ==
    IF Len(s) >= 2 /\ s[1] = "*" /\ s[2] = "*" THEN remove_double_star(str_from(s, 2))
    ELSE IF s = <<>> THEN <<>>
    ELSE <<Head(s)>> \o remove_double_star(Tail(s))

\* bot.py LessonPDF._safe_text: the lookup (the entries for the model's
\* characters), then encode('ascii', 'replace'), which writes '?'
safe_text_replacements ==
    [c \in {"arrow", "bullet", "en_dash"} |->
        IF c = "arrow" THEN <<"-", ">">> ELSE <<"-">>]
encode_ascii_replace(text) ==
    [i \in DOMAIN text |-> IF text[i] \in NonAscii THEN "?" ELSE text[i]]
safe_text(text) == encode_ascii_replace(replace_each(text, safe_text_replacements))

\* api.py ascii_only: the lookup, then a space for what is left outside ASCII
ascii_only_replacements ==
    [c \in {"e_acute", "en_dash"} |-> IF c = "e_acute" THEN <<"e">> ELSE <<"-">>]
ascii_only(text) ==
    LET result == replace_each(text, ascii_only_replacements)
    IN [i \in DOMAIN result |-> IF result[i] \in NonAscii THEN " " ELSE result[i]]

\* what a renderer emits for one line
Block(type, text) == [type |-> type, text |-> text]

\* the tests the if-chains share
is_bold_line(line) == str_startswith(line, <<"*", "*">>) /\ str_endswith(line, <<"*", "*">>)
is_numbered(line) == Len(line) > 2 /\ line[1] \in Digits /\ line[2] \in {".", ")", ":"}

\* bot.py add_lesson_content, one pass of its loop (no word of the model's
\* lines reaches the 55 characters at which _break_long_words cuts).  The
\* "ends with ':'" lines are set in the bold 10pt slate of the '**' lines.
add_lesson_content_line(raw) ==
    LET line == str_strip(raw, Whitespace)
        safe_line == safe_text(line)
    IN IF line = <<>> THEN Block("blank", <<>>)
       ELSE IF str_startswith(line, <<"#", "#", " ">>) \/ str_startswith(line, <<"#", " ">>)
       THEN Block("heading", str_strip(str_lstrip(safe_line, {"#"}), Whitespace))
       ELSE IF is_bold_line(line)
       THEN Block("emphasized", str_strip(str_strip(safe_line, {"*"}), Whitespace))
       ELSE IF line[Len(line)] = ":" /\ Len(line) < 60 /\ ~str_startswith(line, <<"-">>)
       THEN Block("emphasized", safe_line)
       ELSE IF \/ str_startswith(line, <<"-", " ">>)
               \/ str_startswith(line, <<"*", " ">>)
               \/ str_startswith(line, <<"bullet", " ">>)
       THEN Block("bullet", <<" ", " ", " ", " ", "chr149", " ">>
                            \o safe_text(str_from(line, 2)))
       ELSE IF is_numbered(line) THEN Block("numbered", <<" ", " ">> \o safe_line)
       ELSE Block("paragraph", safe_line)

\* bot.py create_lesson_html, one pass of its loop (the <strong> markup of
\* inline bold is not kept; the <ul> wrapping is in html_markup)
create_lesson_html_line(raw) ==
    LET line == str_strip(raw, Whitespace)
    IN IF line = <<>> THEN Block("blank", <<>>)
       ELSE IF str_startswith(line, <<"#", "#", " ">>) THEN Block("heading", str_from(line, 3))
       ELSE IF str_startswith(line, <<"#", " ">>) THEN Block("heading", str_from(line, 2))
       ELSE IF is_bold_line(line) THEN Block("emphasized", str_strip(line, {"*"}))
       ELSE IF \/ str_startswith(line, <<"-", " ">>)
               \/ str_startswith(line, <<"*", " ">>)
               \/ str_startswith(line, <<"bullet", " ">>)
       THEN Block("bullet", str_from(line, 2))
       ELSE IF is_numbered(line) THEN Block("numbered", line)
       ELSE Block("paragraph", line)

\* api.py create_pdf, one pass of its loop
create_pdf_line(raw) ==
    LET line == str_strip(raw, Whitespace)
        safe_line == ascii_only(line)
    IN IF line = <<>> THEN Block("blank", <<>>)
       ELSE IF str_startswith(line, <<"#", "#", " ">>)
       THEN Block("heading", str_from(safe_line, 3))
       ELSE IF is_bold_line(line) THEN Block("emphasized", remove_double_star(safe_line))
       ELSE IF str_startswith(line, <<"-", " ">>) \/ str_startswith(line, <<"*", " ">>)
       THEN Block("bullet", <<" ", " ", "*", " ">> \o str_from(safe_line, 2))
       ELSE Block("paragraph", remove_double_star(safe_line))

\* the loops over content.split('\n')
add_lesson_content(content) ==
    [i \in DOMAIN split(content) |-> add_lesson_content_line(split(content)[i])]
create_lesson_html(content) ==
    [i \in DOMAIN split(content) |-> create_lesson_html_line(split(content)[i])]
create_pdf_content(content) ==
    [i \in DOMAIN split(content) |-> create_pdf_line(split(content)[i])]

\* the tag create_lesson_html opens for a block that is not a list item
block_tag(type) ==
    CASE type = "blank" -> "<br>"
      [] type = "heading" -> "<h>"
      [] type = "emphasized" -> "<p class='bold'>"
      [] type = "numbered" -> "<p class='numbered'>"
      [] OTHER -> "<p>"

\* a renderer that leaves its lists open
close_list_never(in_list) == <<>>

\* if in_list: content_html += "</ul>"
close_list(in_list) == IF in_list THEN <<"</ul>">> ELSE <<>>

\* create_lesson_html: the tags content_html receives from line i on, in_list
\* being the loop's flag, and after the loop
RECURSIVE html_markup_from(_, _, _)
html_markup_from(lines, i, in_list) ==
    IF i > Len(lines) THEN close_list(in_list)
    ELSE LET type == create_lesson_html_line(lines[i]).type
         IN IF type = "bullet"
            THEN (IF ~in_list THEN <<"<ul>">> ELSE <<>>) \o <<"<li>">>
                 \o html_markup_from(lines, i + 1, TRUE)
            ELSE close_list(in_list) \o <<block_tag(type)>>
                 \o html_markup_from(lines, i + 1, FALSE)
html_markup(content) == html_markup_from(split(content), 1, FALSE)

\* a renderer call: the lesson text, which renderer ran, its blocks, and the
\* tags of the HTML renderer
RenderCall(content) ==
    [content |-> content, pc |-> "called", renderer |-> "none", blocks |-> <<>>,
     markup |-> <<>>]
NoRender == RenderCall(<<>>)
Rendered(call, renderer, blocks) ==
    [call EXCEPT !.pc = "returned", !.renderer = renderer, !.blocks = blocks]

----------------------------------------------------------------------------
(* Lesson repository: lessons.json behind the GitHub contents API *)

LessonCap == 1000

AbsentFile == [exists |-> FALSE, valid |-> TRUE, lessons |-> <<>>]
JsonFile(lessons) == [exists |-> TRUE, valid |-> TRUE, lessons |-> lessons]
GarbageFile == [exists |-> TRUE, valid |-> FALSE, lessons |-> <<>>]

\* the blob sha GitHub reports for the file: a hash of its content
sha_of(file) == <<"sha", file.valid, file.lessons>>

\* a store that takes a PUT without sha as "create or replace"
put_accepted_unversioned(file, sha) ==
    IF file.exists THEN sha = sha_of(file) \/ sha = <<>> ELSE sha = <<>>

\* the contents API accepts a PUT on an existing file only with that file's
\* current sha, and a PUT without sha only when the file does not exist
put_accepted(file, sha) ==
    IF file.exists THEN sha = sha_of(file) ELSE sha = <<>>

\* lessons.insert(0, lesson)
insert_front(lessons, lesson) == <<lesson>> \o lessons
\* a write-back that keeps every record
truncate_nothing(lessons) == lessons

\* lessons[:1000]
truncate(lessons) == SubSeq(lessons, 1, Min(Len(lessons), LessonCap))

\* what the GET of save_lesson_to_github leaves in (sha, lessons);
\* status 200 needs the file to exist, any other status starts fresh
read_for_save(file, status200) ==
    IF status200 /\ file.exists
    THEN [sha |-> sha_of(file), lessons |-> file.lessons]
    ELSE [sha |-> <<>>, lessons |-> <<>>]

\* a PUT that carries whatever sha the file has when it is sent
put_sha_of_current(read, file) == IF file.exists THEN sha_of(file) ELSE <<>>

\* the sha the PUT body carries: the one the GET of this call returned
put_sha(read, file) == read.sha

\* a save that reports success whatever the token and the network do
save_lesson_to_github_regardless(token, file, lesson, net) ==
    [saved |-> TRUE, file |-> JsonFile(truncate(insert_front(file.lessons, lesson)))]

\* save_lesson_to_github run without interleaving.  net is what the network
\* does: "ok", "get_status" (the GET answers with an error status),
\* "unreachable" (a request raises) or "put_error" (the PUT answers 4xx/5xx).
save_lesson_to_github(token, file, lesson, net) ==
    IF ~token THEN [saved |-> FALSE, file |-> file]
    ELSE IF net = "unreachable" THEN [saved |-> FALSE, file |-> file]
    ELSE IF file.exists /\ ~file.valid /\ net # "get_status"
         THEN [saved |-> FALSE, file |-> file]          \* json.loads raises
    ELSE LET read == read_for_save(file, net # "get_status")
             lessons == truncate(insert_front(read.lessons, lesson))
         IN IF net # "put_error" /\ put_accepted(file, put_sha(read, file))
            THEN [saved |-> TRUE, file |-> JsonFile(lessons)]
            ELSE [saved |-> FALSE, file |-> file]

\* get_lessons_from_github
get_lessons_from_github(token, file, net) ==
    IF ~token THEN <<>>
    ELSE IF net # "ok" THEN <<>>
    ELSE IF ~file.exists THEN <<>>
    ELSE IF ~file.valid THEN <<>>
    ELSE file.lessons

\* ids generate_lesson_id may return (md5 of the timestamp, 8 hex digits)
LessonIds == {"les_a", "les_b"}

create_lesson_record(params, content, teacher_name, public, id) ==
    [id |-> id,
     teacher_name |-> IF teacher_name = "" \/ teacher_name = None
                      THEN "Anonymous" ELSE teacher_name,
     country |-> dict_get(params, "country", "Global"),
     subject |-> dict_get(params, "subject", "General"),
     topic |-> dict_get(params, "topic", "Untitled"),
     ages |-> dict_get(params, "ages", "All ages"),
     duration |-> dict_get(params, "duration", "45"),
     materials |-> dict_get(params, "materials", "basic"),
     style |-> dict_get(params, "style", "mixed"),
     depth |-> dict_get(params, "depth", "standard"),
     content |-> content,
     public |-> public,
     views |-> 0,
     downloads |-> 0]

is_public(l) == l.public
public_only(lessons) == SelectSeq(lessons, is_public)
first_n(lessons, limit) == SubSeq(lessons, 1, Min(Len(lessons), limit))

\* get_recent_lessons
get_recent_lessons(lessons, limit) == first_n(public_only(lessons), limit)

\* search_lessons(subject=..., limit=...)
search_lessons(lessons, subject, limit) ==
    LET same_subject(l) == l.subject = subject   \* both sides lower-cased
    IN first_n(SelectSeq(public_only(lessons), same_subject), limit)

----------------------------------------------------------------------------
(* Prompt builders: build_lesson_prompt of bot.py and of api.py *)

\* A prompt is kept as its sequence of lines.  A Field line is a template with
\* one interpolated value, a Header line is a "## " section header whose value
\* is the minutes interpolated after it ("" when the header has none), a Text
\* line is constant text.
Field(template, value) == [kind |-> "field", label |-> template, value |-> value]
Header(title, minutes) == [kind |-> "header", label |-> title, value |-> minutes]
Text(text) == [kind |-> "text", label |-> text, value |-> ""]

\* int(str) on the duration strings: the decimal literals up to MaxDuration are
\* parsed, every other string raises ValueError
MaxDuration == 240
is_int_literal(s) == \E d \in 0..MaxDuration : ToString(d) = s
int(s) == CHOOSE d \in 0..MaxDuration : ToString(d) = s

\* binary64 arithmetic of int(d) * 0.15: a float is significand * 2^-exp, the
\* 53-bit significand held as four 16-bit limbs, lowest first
Limb == 65536
float_0_15 == [sig |-> <<13107, 13107, 13107, 19>>, exp |-> 55]
float_0_6 == [sig |-> <<13107, 13107, 13107, 19>>, exp |-> 53]
float_0_25 == [sig |-> <<0, 0, 0, 16>>, exp |-> 54]

RECURSIVE pow2(_)
pow2(k) == IF k = 0 THEN 1 ELSE 2 * pow2(k - 1)
RECURSIVE bit_length(_)
bit_length(n) == IF n = 0 THEN 0 ELSE 1 + bit_length(n \div 2)

\* carries moved up so that every limb but the highest is below Limb
normalize(p) ==
    LET a1 == p[2] + p[1] \div Limb
        a2 == p[3] + a1 \div Limb
        a3 == p[4] + a2 \div Limb
    IN <<p[1] % Limb, a1 % Limb, a2 % Limb, a3>>

\* the exact product d * significand
product(d, sig) == normalize(<<d * sig[1], d * sig[2], d * sig[3], d * sig[4]>>)

\* the bits of the exact product that do not fit in 53
dropped_bits(p) ==
    LET s == bit_length(p[4]) - 5 IN IF s > 0 THEN s ELSE 0

\* a product cut to 53 bits by dropping the low bits
round_toward_zero(p) ==
    LET s == dropped_bits(p) IN <<p[1] - (p[1] % pow2(s)), p[2], p[3], p[4]>>

\* the product rounded to 53 bits, ties to the even significand
round_half_even(p) ==
    LET s == dropped_bits(p)
        low == p[1] % pow2(s)
        half == pow2(s) \div 2
        odd == (p[1] \div pow2(s)) % 2 = 1
        up == s > 0 /\ (low > half \/ (low = half /\ odd))
    IN normalize(<<p[1] - low + (IF up THEN pow2(s) ELSE 0), p[2], p[3], p[4]>>)

\* int(d * f) for d >= 0: the integer part of the rounded product
int_of_product(d, f) == round_half_even(product(d, f.sig))[4] \div pow2(f.exp - 48)

\* f"{int(int(params.duration) * 0.15)}"
minutes(duration, f) == ToString(int_of_product(int(duration), f))

----------------------------------------------------------------------------
(* int(int(params.duration) * 0.15) on durations of any size: Python's
   integers are unbounded and its floats are binary64 *)

\* A natural number is its digits in base Base, lowest first, with no leading
\* zero; the base keeps every product of two digits inside TLC's integers.
Base == 4096
BaseBits == 12

RECURSIVE big_of(_)
big_of(n) == IF n = 0 THEN <<>> ELSE <<n % Base>> \o big_of(n \div Base)

RECURSIVE big_trim(_)
big_trim(a) ==
    IF a # <<>> /\ a[Len(a)] = 0 THEN big_trim(SubSeq(a, 1, Len(a) - 1)) ELSE a

RECURSIVE add_carry(_, _, _)
add_carry(a, b, c) ==
    IF a = <<>> /\ b = <<>> THEN big_of(c)
    ELSE LET x == IF a = <<>> THEN 0 ELSE Head(a)
             y == IF b = <<>> THEN 0 ELSE Head(b)
             sum == x + y + c
         IN <<sum % Base>> \o add_carry(IF a = <<>> THEN <<>> ELSE Tail(a),
                                         IF b = <<>> THEN <<>> ELSE Tail(b),
                                         sum \div Base)
big_add(a, b) == add_carry(a, b, 0)

\* a * m + c for a digit m
RECURSIVE scale(_, _, _)
scale(a, m, c) ==
    IF a = <<>> THEN big_of(c)
    ELSE LET v == Head(a) * m + c
         IN <<v % Base>> \o scale(Tail(a), m, v \div Base)

RECURSIVE mul_digits(_, _)
mul_digits(a, b) ==
    IF b = <<>> THEN <<>>
    ELSE big_add(scale(a, Head(b), 0), <<0>> \o mul_digits(a, Tail(b)))
big_mul(a, b) == big_trim(mul_digits(a, b))

\* a <= b
RECURSIVE big_le(_, _)
big_le(a, b) ==
    IF Len(a) # Len(b) THEN Len(a) < Len(b)
    ELSE IF a = <<>> THEN TRUE
    ELSE IF a[Len(a)] # b[Len(b)] THEN a[Len(a)] < b[Len(b)]
    ELSE big_le(SubSeq(a, 1, Len(a) - 1), SubSeq(b, 1, Len(b) - 1))

\* bit i of a (bit 0 the lowest), and the number of bits of a
big_bit(a, i) ==
    IF i \div BaseBits + 1 > Len(a) THEN 0
    ELSE (a[i \div BaseBits + 1] \div pow2(i % BaseBits)) % 2
big_bit_length(a) ==
    IF a = <<>> THEN 0 ELSE BaseBits * (Len(a) - 1) + bit_length(a[Len(a)])

\* a with its k lowest bits dropped, and a * 2^k
digit_at(a, j) == IF j \in DOMAIN a THEN a[j] ELSE 0
shift_right(a, k) ==
    LET q == k \div BaseBits
        r == k % BaseBits
    IN big_trim([j \in 1..(IF Len(a) > q THEN Len(a) - q ELSE 0) |->
                    digit_at(a, j + q) \div pow2(r)
                    + (digit_at(a, j + q + 1) % pow2(r)) * pow2(BaseBits - r)])
shift_left(a, k) ==
    LET q == k \div BaseBits
        r == k % BaseBits
    IN big_trim([j \in 1..(Len(a) + q + 1) |->
                    IF j <= q THEN 0
                    ELSE (digit_at(a, j - q) % pow2(BaseBits - r)) * pow2(r)
                         + digit_at(a, j - q - 1) \div pow2(BaseBits - r)])

\* int(s) on a decimal literal, a sequence of digit characters
digit_value(c) == CHOOSE n \in 0..9 : ToString(n) = c
RECURSIVE int_of_digits(_)
int_of_digits(digits) ==
    IF digits = <<>> THEN <<>>
    ELSE big_trim(scale(int_of_digits(SubSeq(digits, 1, Len(digits) - 1)), 10,
                        digit_value(digits[Len(digits)])))

\* the significand of a float constant, from its 16-bit limbs
RECURSIVE big_of_limbs(_)
big_of_limbs(sig) ==
    IF sig = <<>> THEN <<>>
    ELSE big_add(shift_left(big_of_limbs(Tail(sig)), 16), big_of(Head(sig)))

\* a number cut to 53 significant bits, ties to the even significand: the
\* bits kept and how many were dropped
round_to_53(a) ==
    LET s == big_bit_length(a) - 53 IN
    IF s <= 0 THEN [sig |-> a, shift |-> 0]
    ELSE LET kept == shift_right(a, s)
             above_half == \E i \in 0..(s - 2) : big_bit(a, i) = 1
             up == big_bit(a, s - 1) = 1 /\ (above_half \/ big_bit(kept, 0) = 1)
         IN [sig |-> IF up THEN big_add(kept, <<1>>) ELSE kept, shift |-> s]

\* float(d) * f in binary64, as significand * 2^exp; f is sig * 2^-exp
float_product(d, f) ==
    LET x == round_to_53(d)
        p == round_to_53(big_mul(x.sig, big_of_limbs(f.sig)))
    IN [sig |-> p.sig, exp |-> x.shift + p.shift - f.exp]

\* int(x) of a float x >= 0
int_of_float(x) ==
    IF x.exp >= 0 THEN shift_left(x.sig, x.exp) ELSE shift_right(x.sig, 0 - x.exp)

\* int(int(params.duration) * f) on a decimal literal
wide_minutes(digits, f) == int_of_float(float_product(int_of_digits(digits), f))

\* the sub-timings of api.py build_lesson_prompt: where the call stands, its
\* duration and the opening, main activity and closing minutes
DurationCall(digits) == [duration |-> digits, pc |-> "called", minutes |-> <<>>]
sub_timings(digits) ==
    <<wide_minutes(digits, float_0_15), wide_minutes(digits, float_0_6),
      wide_minutes(digits, float_0_25)>>

----------------------------------------------------------------------------
(* The prompts *)

\* api.py LessonRequest with its defaults; `given` holds the fields of the body
LessonRequest(given) ==
    [k \in {"subject", "topic", "ages", "duration", "country", "materials",
            "style", "language"} |->
        IF k \in DOMAIN given THEN given[k]
        ELSE CASE k = "ages" -> "8-12"
               [] k = "duration" -> "45"
               [] k = "country" -> "Global"
               [] k = "materials" -> "basic"
               [] k = "style" -> "mixed"
               [] k = "language" -> "en"
               [] OTHER -> ""]

\* api.py lookups (accents of the Spanish phrases left out)
materials_desc(lang) ==
    IF lang = "es"
    THEN [none |-> "SIN MATERIALES - usar solo actividades verbales, movimiento, imaginacion",
          basic |-> "Materiales basicos - papel, lapices, pizarra",
          standard |-> "Utiles completos de aula disponibles"]
    ELSE [none |-> "NO MATERIALS - use only verbal activities, movement, imagination",
          basic |-> "Basic materials - paper, pencils, blackboard",
          standard |-> "Full classroom supplies available"]
style_desc(lang) ==
    IF lang = "es"
    THEN [interactive |-> "Usa metodos altamente interactivos con juegos, trabajo en grupo, movimiento y actividades practicas.",
          structured |-> "Usa un enfoque estructurado dirigido por el docente con instrucciones claras paso a paso.",
          storytelling |-> "Usa narrativa y cuentos para ensenar conceptos, creando personajes y escenarios.",
          mixed |-> "Equilibra diferentes estilos de ensenanza segun la actividad."]
    ELSE [interactive |-> "Use highly interactive methods with games, group work, movement, and hands-on activities.",
          structured |-> "Use a structured teacher-led approach with clear step-by-step instructions.",
          storytelling |-> "Use narrative and storytelling to teach concepts, creating characters and scenarios.",
          mixed |-> "Balance different teaching styles as appropriate for each activity."]

\* the outcome of a builder: the prompt, or the exception that left it
Built(lines) == [raised |-> FALSE, error |-> "", lines |-> lines]
Raised(error) == [raised |-> TRUE, error |-> error, lines |-> <<>>]

\* api.py build_lesson_prompt
api_build_lesson_prompt(params) ==
    LET lang == params.language
        mat == dict_get(materials_desc(lang), params.materials, materials_desc(lang).basic)
        sty == dict_get(style_desc(lang), params.style, style_desc(lang).mixed)
        d == params.duration
    IN IF ~is_int_literal(d) THEN Raised("invalid literal for int() with base 10")
       ELSE IF lang = "es"
       THEN Built(<<
          Text("Crea un plan de leccion detallado con estas especificaciones:"),
          Field("**Materia:** {}", params.subject),
          Field("**Tema:** {}", params.topic),
          Field("**Edades de los estudiantes:** {} anos", params.ages),
          Field("**Duracion:** {} minutos", d),
          Field("**Ubicacion/Contexto:** {}", params.country),
          Field("**Materiales disponibles:** {}", mat),
          Field("**Estilo de ensenanza:** {}", sty),
          Text("Formatea tu respuesta como un plan de leccion completo con estas secciones:"),
          Header("Objetivos de Aprendizaje", ""),
          Header("Materiales Necesarios", ""),
          Header("Introduccion de la Leccion", minutes(d, float_0_15)),
          Header("Actividad Principal", minutes(d, float_0_6)),
          Header("Cierre y Evaluacion", minutes(d, float_0_25)),
          Header("Consejos de Diferenciacion", ""),
          Field("- Usa ejemplos culturalmente relevantes para {}", params.country),
          Header("Preguntas de Comprension", ""),
          Header("Consejos para el Docente", ""),
          Text("CRITICO: Cada seccion debe tener contenido real.")>>)
       ELSE Built(<<
          Text("Create a detailed lesson plan with these specifications:"),
          Field("**Subject:** {}", params.subject),
          Field("**Topic:** {}", params.topic),
          Field("**Student Ages:** {} years old", params.ages),
          Field("**Duration:** {} minutes", d),
          Field("**Location/Context:** {}", params.country),
          Field("**Available Materials:** {}", mat),
          Field("**Teaching Style:** {}", sty),
          Text("Format your response as a complete lesson plan with these sections:"),
          Header("Learning Objectives", ""),
          Header("Materials Needed", ""),
          Header("Lesson Introduction", minutes(d, float_0_15)),
          Header("Main Activity", minutes(d, float_0_6)),
          Header("Wrap-Up & Assessment", minutes(d, float_0_25)),
          Header("Differentiation Tips", ""),
          Field("- Use culturally relevant examples for {}", params.country),
          Header("Comprehension Questions", ""),
          Header("Teacher Tips", ""),
          Text("CRITICAL: Every section must have real content.")>>)

\* bot.py: the phrases of the materials and style if-chains
materials_line(materials) ==
    CASE materials = "none" ->
            <<Field("Available materials: {}", "No physical materials - design activities using voice, movement, games, and imagination only")>>
      [] materials = "basic" ->
            <<Field("Available materials: {}", "Basic supplies - chalkboard or whiteboard, paper, pencils")>>
      [] materials = "standard" ->
            <<Field("Available materials: {}", "Full classroom - worksheets, art supplies, manipulatives, varied resources")>>
      [] OTHER -> <<>>
style_line(style) ==
    CASE style = "interactive" ->
            <<Field("Teaching style: {}", "Highly interactive - lots of student participation, movement, games")>>
      [] style = "structured" ->
            <<Field("Teaching style: {}", "Structured - clear steps, organized progression, some interaction")>>
      [] style = "storytelling" ->
            <<Field("Teaching style: {}", "Story-based - use narratives, characters, scenarios to teach concepts")>>
      [] OTHER -> <<>>

\* bot.py: the OUTPUT FORMAT block of each depth
output_format_block(depth) ==
    CASE depth = "quick" ->
            <<Text("OUTPUT FORMAT - QUICK PLAN (~200 words):"),
              Header("Learning Objective", ""), Header("Key Points", ""),
              Header("Main Activity", "X"), Header("Quick Check", ""),
              Header("Teacher Tip", "")>>
      [] depth = "standard" ->
            <<Text("OUTPUT FORMAT - STANDARD LESSON PLAN:"),
              Header("Learning Objective", ""), Header("Materials Needed", ""),
              Header("Opening Hook", "3"), Header("Main Lesson", "X"),
              Header("Practice Activity", "X"), Header("Closing", "3"),
              Header("Teacher Tips", "")>>
      [] depth = "full" ->
            <<Text("OUTPUT FORMAT - FULL LESSON KIT (~800 words):"),
              Header("Learning Objectives", ""), Header("Materials Needed", ""),
              Header("Opening Hook", "3"), Header("Main Lesson", "X"),
              Header("Practice Activity", "X"), Header("Closing", "3"),
              Header("Differentiation", ""), Header("Assessment Questions", ""),
              Header("Extension Activity", ""), Header("Teacher Tips", "")>>
      [] OTHER -> <<>>

\* a line added when params.get(key) is truthy
optional(params, key, template) ==
    IF dict_truthy(params, key) THEN <<Field(template, params[key])>> ELSE <<>>

\* bot.py build_lesson_prompt
build_lesson_prompt(params) ==
    Built(<<Field("Create a lesson plan for: {}", dict_get(params, "topic", "general topic"))>>
          \o optional(params, "subject", "Subject: {}")
          \o optional(params, "ages", "Student ages: {}")
          \o optional(params, "duration", "Class duration: {} minutes")
          \o optional(params, "class_size", "Class size: approximately {} students")
          \o optional(params, "country", "Location context: {} (use locally relevant examples)")
          \o materials_line(dict_get(params, "materials", "minimal"))
          \o style_line(dict_get(params, "style", None))
          \o output_format_block(dict_get(params, "depth", "standard"))
          \o optional(params, "special_requests", "Special requests: {}"))

\* a generate_lesson call: who made it, what was asked for (the request body
\* or the wizard's answers), the parameters generate_lesson receives, whether
\* it has run, the builder's outcome, and what the endpoint answered
NoResponse == [status |-> "", detail |-> ""]
GenerationCall(caller, request, params) ==
    [caller |-> caller, request |-> request, params |-> params, pc |-> "called",
     built |-> Built(<<>>), response |-> NoResponse]
NoCall == GenerationCall("none", EmptyDict, EmptyDict)
Returned(call, built, response) ==
    [call EXCEPT !.pc = "returned", !.built = built, !.response = response]

----------------------------------------------------------------------------
(* Keyboards: the callback_data of the buttons each prompt offers *)

SubjectKeyboard ==
    {Tok("subject_", x) : x \in {"Mathematics", "Reading", "Science",
                                  "Social Studies", "Arts", "Language", "other"}}
AgesKeyboard == {Tok("ages_", x) : x \in {"5-7", "7-9", "9-11", "11-13", "13-15", "15-18"}}
AgesKeyboardTyped == {Tok("ages_", x) : x \in {"5-7", "7-9", "9-11", "11-13", "13-15", "15+"}}
DurationKeyboard == {Tok("duration_", x) : x \in {"30", "45", "60", "90"}}
CountryKeyboard ==
    {Tok("country_", x) : x \in {"India", "Nigeria", "Philippines", "Indonesia",
        "Pakistan", "Bangladesh", "Kenya", "Ethiopia", "South Africa", "Tanzania",
        "Brazil", "Mexico", "Ghana", "Uganda", "other", "skip"}}
MaterialsKeyboard == {Tok("materials_", x) : x \in {"none", "basic", "standard"}}
StyleKeyboard ==
    {Tok("style_", x) : x \in {"interactive", "structured", "storytelling", "mixed"}}
DepthKeyboard == {Tok("depth_", x) : x \in {"quick", "standard", "full"}}
FormatKeyboard == {Tok("format_", x) : x \in {"chat", "pdf", "html", "both"}}
ShareKeyboard == {Tok("share_yes", ""), Tok("share_no", "")}
FollowUpKeyboard ==
    {Tok("action_tweak", ""), Tok("action_new_topic", ""),
     Tok("action_browse", ""), Tok("action_new", "")}
WelcomeKeyboard ==
    {Tok("action_new", ""), Tok("action_quick", ""),
     Tok("action_browse", ""), Tok("action_help", "")}
VoiceKeyboard ==
    {Tok("depth_", "standard"), Tok("action_edit_transcript", ""), Tok("action_cancel", "")}
NaturalKeyboard ==
    {Tok("depth_", "quick"), Tok("depth_", "standard"), Tok("depth_", "full"),
     Tok("action_new", "")}
QuickDoneKeyboard ==
    {Tok("depth_", "standard"), Tok("action_tweak", ""), Tok("action_new", "")}
TweakDoneKeyboard == {Tok("action_tweak", ""), Tok("action_new", "")}
SearchKeyboard ==
    {Tok("search_subject_", x) : x \in {"Mathematics", "Reading", "Science", "Social Studies"}}
    \cup {Tok("action_browse", "")}
CategoryKeyboard(subject) ==
    {Tok("topiccat_", c) : c \in get_topic_categories(subject)}
    \cup {Tok("topiccat_", "random"), Tok("topic_", "custom")}
TopicsKeyboard(subject, topics, shuffle) ==
    {Tok("topic_", t) : t \in topics}
    \cup (IF shuffle THEN {Tok("topiccat_", "random")} ELSE {})
    \cup {Tok("subject_", subject), Tok("topic_", "custom")}
LessonListKeyboard(lessons) ==
    {Tok("get_lesson_", lessons[i].id) : i \in DOMAIN lessons}

----------------------------------------------------------------------------
(* What the environment does during one handler *)

GenOutcomes == {"L1", "error"}
Nets == {"ok", "get_status", "unreachable", "put_error"}

\* gen: the backend's answer; faults: the renderer's; net: the repository
\* requests'; website: push_lesson_to_website's result; id: generate_lesson_id
Env(gen, faults, net, website, id) ==
    [gen |-> gen, faults |-> faults, net |-> net, website |-> website, id |-> id]
QuietEnv == Env("error", NoFaults, "ok", FALSE, "les_a")

\* a handler's effect: the session it leaves, the chat output, whether an
\* exception left it, the backend requests made, the renderer call's outcome,
\* the repository file
Done(session, out, file) ==
    [session |-> session, sent |-> out, raised |-> FALSE, calls |-> 0,
     pdf |-> "not_called", file |-> file]

----------------------------------------------------------------------------
(* Commands *)

\* new_command
new_command(session, kind) ==
    LET s1 == [session EXCEPT !.params = EmptyDict, !.state = "awaiting_subject"]
    IN [session |-> s1, sent |-> <<Msg(kind, "What subject?", SubjectKeyboard)>>]

\* quick_command
quick_command(session) ==
    [session EXCEPT !.params = dict_set(EmptyDict, "depth", "quick"),
                    !.state = "awaiting_quick_input"]

\* the library listing shared by browse_command and the action_browse button
browse_listing(kind, token, file, net) ==
    LET recent == get_recent_lessons(get_lessons_from_github(token, file, net), 5)
    IN IF Len(recent) = 0
       THEN Msg(kind, "No lessons shared yet",
                IF kind = "message" THEN {Tok("action_new", "")} ELSE {})
       ELSE LessonMsg(kind, "Lesson Library", 0, NoLesson,
                LessonListKeyboard(recent)
                \cup {Tok("browse_by_subject", ""), Tok("action_new", "")})

----------------------------------------------------------------------------
(* handle_callback, one operator per branch of its if-chain *)

cb_subject(session, data, file) ==
    LET subject == strip_prefix(data) IN
    IF subject = "other"
    THEN Done([session EXCEPT !.state = "awaiting_subject_text"],
              <<Msg("edit", "Type the subject:", {})>>, file)
    ELSE LET s1 == [session EXCEPT !.params = dict_set(@, "subject", subject),
                                   !.state = "awaiting_topic"]
         IN IF get_topic_categories(subject) # {}
            THEN Done(s1, <<Msg("edit", "Choose a category", CategoryKeyboard(subject))>>, file)
            ELSE Done(s1, <<Msg("edit", "Type your topic:", {})>>, file)

cb_topiccat(session, data, file) ==
    LET category == strip_prefix(data)
        subject == dict_get(session.params, "subject", "")
    IN IF category = "random"
       THEN Done(session, <<Msg("edit", "Pick a topic",
                 TopicsKeyboard(subject, get_random_topics(subject), TRUE))>>, file)
       ELSE Done(session, <<Msg("edit", "Pick a topic",
                 TopicsKeyboard(subject, get_topics_in_category(subject, category), FALSE))>>, file)

cb_topic(session, data, file) ==
    LET topic == strip_prefix(data) IN
    IF topic = "custom"
    THEN Done([session EXCEPT !.state = "awaiting_topic"],
              <<Msg("edit", "Type your topic:", {})>>, file)
    ELSE Done([session EXCEPT !.params = dict_set(@, "topic", topic),
                              !.state = "awaiting_ages"],
              <<Msg("edit", "What age are your students?", AgesKeyboard)>>, file)

cb_ages(session, data, file) ==
    Done([session EXCEPT !.params = dict_set(@, "ages", strip_prefix(data)),
                         !.state = "awaiting_duration"],
         <<Msg("edit", "How long is your class?", DurationKeyboard)>>, file)

cb_duration(session, data, file) ==
    Done([session EXCEPT !.params = dict_set(@, "duration", strip_prefix(data)),
                         !.state = "awaiting_country"],
         <<Msg("edit", "Where are you teaching?", CountryKeyboard)>>, file)

cb_country(session, data, file) ==
    LET country == strip_prefix(data) IN
    IF country = "other"
    THEN Done([session EXCEPT !.state = "awaiting_country_text"],
              <<Msg("edit", "Type your country:", {})>>, file)
    ELSE Done([session EXCEPT
                  !.params = IF country # "skip" THEN dict_set(@, "country", country) ELSE @,
                  !.state = "awaiting_materials"],
              <<Msg("edit", "What materials do you have?", MaterialsKeyboard)>>, file)

cb_materials(session, data, file) ==
    Done([session EXCEPT !.params = dict_set(@, "materials", strip_prefix(data)),
                         !.state = "awaiting_style"],
         <<Msg("edit", "What teaching style works best?", StyleKeyboard)>>, file)

\* a style branch that asks for the format at once
cb_style_to_format(session, data, file) ==
    LET style == strip_prefix(data) IN
    Done([session EXCEPT
             !.params = IF style # "mixed" THEN dict_set(@, "style", style) ELSE @,
             !.state = "awaiting_format"],
         <<Msg("edit", "Choose your format:", FormatKeyboard)>>, file)

cb_style(session, data, file) ==
    LET style == strip_prefix(data) IN
    Done([session EXCEPT
             !.params = IF style # "mixed" THEN dict_set(@, "style", style) ELSE @,
             !.state = "awaiting_depth"],
         <<Msg("edit", "How detailed should the lesson plan be?", DepthKeyboard)>>, file)

cb_depth(session, data, file) ==
    Done([session EXCEPT !.params = dict_set(@, "depth", strip_prefix(data)),
                         !.state = "awaiting_format"],
         <<Msg("edit", "Choose your format:", FormatKeyboard)>>, file)

\* the "sorry, something went wrong" notice of the except branches
ErrorNotice == Msg("message", "Sorry, something went wrong. Please try again.", {})

\* chat delivery of the format branch: one message when specs + lesson is
\* under 4000 characters, else the specs and then 4000-character chunks
chat_delivery(params, lesson_content) ==
    IF summary_len(params) + 2 + len(lesson_content) < 4000
    THEN <<LessonMsg("message", "specs + lesson", summary_len(params) + 2,
                     Slice(lesson_content, 0, len(lesson_content)), {})>>
    ELSE <<Msg("message", "specs", {})>> \o chunks_from(lesson_content, 0)

\* the state a failed generation leaves: the except branch assigns none
state_after_generation_error(session) == session.state

cb_format(session, data, file, env) ==
    LET output_format == strip_prefix(data)
        s1 == [session EXCEPT !.params = dict_set(@, "output_format", output_format)]
        generating == <<Msg("edit", "Generating your lesson plan...", {})>>
    IN IF env.gen = "error"                      \* generate_lesson raises
       THEN [session |-> [s1 EXCEPT !.state = state_after_generation_error(s1)],
             sent |-> generating \o <<ErrorNotice>>,
             raised |-> FALSE, calls |-> 1, pdf |-> "not_called", file |-> file]
       ELSE
       LET lesson_content == env.gen
           s2 == [s1 EXCEPT !.last_lesson = lesson_content, !.state = "lesson_generated"]
           chat == IF output_format \in {"chat", "both"}
                   THEN chat_delivery(s2.params, lesson_content) ELSE <<>>
           wants_pdf == output_format \in {"pdf", "both"}
           pdf == create_lesson_pdf(lesson_content, s2.params, env.faults)
           html == IF output_format = "html"
                   THEN <<LessonMsg("document", "html", 0,
                                    Slice(lesson_content, 0, len(lesson_content)), {})>>
                   ELSE <<>>
           ask == <<Msg("message", "Would you like to share this lesson?", ShareKeyboard)>>
       IN IF wants_pdf /\ pdf.raised             \* caught by the except branch
          THEN [session |-> s2, sent |-> generating \o chat \o <<ErrorNotice>>,
                raised |-> FALSE, calls |-> 1, pdf |-> "raised", file |-> file]
          ELSE [session |-> s2,
                sent |-> generating \o chat
                         \o (IF wants_pdf
                             THEN <<LessonMsg("document", pdf.doc, 0,
                                      Slice(lesson_content, 0, len(lesson_content)), {})>>
                             ELSE <<>>)
                         \o html \o ask,
                raised |-> FALSE, calls |-> 1,
                pdf |-> IF wants_pdf THEN pdf.doc ELSE "not_called", file |-> file]

cb_share_yes(session, file) ==
    Done([session EXCEPT !.pending_share = TRUE, !.state = "awaiting_teacher_name"],
         <<Msg("edit", "What name should we display?", {})>>, file)

cb_share_no(session, file, token, env) ==
    LET save == IF session.last_lesson # None
                THEN save_lesson_to_github(token, file,
                        create_lesson_record(session.params, session.last_lesson,
                                             "Anonymous", FALSE, env.id), env.net)
                ELSE [saved |-> FALSE, file |-> file]
    IN Done(session, <<Msg("edit", "What next?", FollowUpKeyboard)>>, save.file)

cb_action_browse(session, file, token, env) ==
    Done(session, <<Msg("edit", "Loading lesson library...", {}),
                    browse_listing("edit", token, file, env.net)>>, file)

cb_browse_by_subject(session, file) ==
    Done(session, <<Msg("edit", "Search by subject:", SearchKeyboard)>>, file)

cb_search_subject(session, data, file, token, env) ==
    LET results == search_lessons(get_lessons_from_github(token, file, env.net),
                                  strip_prefix(data), 5)
    IN IF Len(results) = 0
       THEN Done(session, <<Msg("edit", "No lessons found yet", {Tok("action_browse", "")})>>, file)
       ELSE Done(session, <<Msg("edit", "Lessons",
                    LessonListKeyboard(results) \cup {Tok("action_browse", "")})>>, file)

\* next((l for l in lessons if l['id'] == lesson_id), None)
find_lesson(lessons, lesson_id) ==
    LET hits == {i \in DOMAIN lessons : lessons[i].id = lesson_id}
    IN IF hits = {} THEN <<>>
       ELSE <<lessons[CHOOSE i \in hits : \A j \in hits : i <= j]>>

cb_get_lesson(session, data, file, token, env) ==
    LET found == find_lesson(get_lessons_from_github(token, file, env.net), strip_prefix(data))
    IN IF found = <<>>
       THEN Done(session, <<Msg("edit", "Lesson not found.", {})>>, file)
       ELSE
       LET lesson == found[1]
           params == [topic |-> lesson.topic, subject |-> lesson.subject,
                      ages |-> lesson.ages, country |-> lesson.country,
                      duration |-> lesson.duration]
           s1 == [session EXCEPT !.params = params]
           pdf == create_lesson_pdf(lesson.content, params, env.faults)
           loading == <<Msg("edit", "Loading...", {})>>
           whole == Slice(lesson.content, 0, len(lesson.content))
       IN IF pdf.raised                          \* no try around this call
          THEN [session |-> s1, sent |-> loading, raised |-> TRUE, calls |-> 0,
                pdf |-> "raised", file |-> file]
          ELSE [session |-> s1,
                sent |-> loading
                         \o <<LessonMsg("document", pdf.doc, 0, whole, {})>>
                         \o (IF len(lesson.content) < 4000
                             THEN <<LessonMsg("message", "lesson", 0, whole, {})>> ELSE <<>>)
                         \o <<Msg("message", "What next?",
                                  {Tok("action_browse", ""), Tok("action_new", "")})>>,
                raised |-> FALSE, calls |-> 0, pdf |-> pdf.doc, file |-> file]

cb_action_tweak(session, file) ==
    Done([session EXCEPT !.state = "awaiting_tweak"], <<Msg("edit", "Tweak Mode", {})>>, file)

cb_action_new_topic(session, file) ==
    LET subject == dict_get(session.params, "subject", "")
        categories == get_topic_categories(subject)
    IN Done([session EXCEPT !.state = "awaiting_topic"],
            <<Msg("edit", "Pick a different topic:",
                  (IF categories # {}
                   THEN {Tok("topiccat_", c) : c \in categories} \cup {Tok("topiccat_", "random")}
                   ELSE {}) \cup {Tok("topic_", "custom")})>>, file)

cb_action_new(session, file) ==
    LET s1 == [session EXCEPT !.params = EmptyDict, !.state = "idle"]
        r == new_command(s1, "edit")
    IN Done(r.session, r.sent, file)

\* the branch of handle_callback's if-chain that takes `data` ("none": the
\* chain is left without any branch taken)
callback_branch(data) ==
    IF startswith(data, "subject_") THEN "subject_"
    ELSE IF startswith(data, "topiccat_") THEN "topiccat_"
    ELSE IF startswith(data, "topic_") THEN "topic_"
    ELSE IF startswith(data, "ages_") THEN "ages_"
    ELSE IF startswith(data, "duration_") THEN "duration_"
    ELSE IF startswith(data, "country_") THEN "country_"
    ELSE IF startswith(data, "materials_") THEN "materials_"
    ELSE IF startswith(data, "style_") THEN "style_"
    ELSE IF startswith(data, "depth_") THEN "depth_"
    ELSE IF startswith(data, "format_") THEN "format_"
    ELSE IF is_token(data, "share_yes") THEN "share_yes"
    ELSE IF is_token(data, "share_no") THEN "share_no"
    ELSE IF is_token(data, "action_browse") THEN "action_browse"
    ELSE IF is_token(data, "browse_by_subject") THEN "browse_by_subject"
    ELSE IF startswith(data, "search_subject_") THEN "search_subject_"
    ELSE IF startswith(data, "get_lesson_") THEN "get_lesson_"
    ELSE IF is_token(data, "action_tweak") THEN "action_tweak"
    ELSE IF is_token(data, "action_new_topic") THEN "action_new_topic"
    ELSE IF is_token(data, "action_new") THEN "action_new"
    ELSE "none"

\* handle_callback on the session get_session returned
handle_callback(session, data, file, token, env) ==
    LET b == callback_branch(data) IN
    CASE b = "subject_" -> cb_subject(session, data, file)
      [] b = "topiccat_" -> cb_topiccat(session, data, file)
      [] b = "topic_" -> cb_topic(session, data, file)
      [] b = "ages_" -> cb_ages(session, data, file)
      [] b = "duration_" -> cb_duration(session, data, file)
      [] b = "country_" -> cb_country(session, data, file)
      [] b = "materials_" -> cb_materials(session, data, file)
      [] b = "style_" -> cb_style(session, data, file)
      [] b = "depth_" -> cb_depth(session, data, file)
      [] b = "format_" -> cb_format(session, data, file, env)
      [] b = "share_yes" -> cb_share_yes(session, file)
      [] b = "share_no" -> cb_share_no(session, file, token, env)
      [] b = "action_browse" -> cb_action_browse(session, file, token, env)
      [] b = "browse_by_subject" -> cb_browse_by_subject(session, file)
      [] b = "search_subject_" -> cb_search_subject(session, data, file, token, env)
      [] b = "get_lesson_" -> cb_get_lesson(session, data, file, token, env)
      [] b = "action_tweak" -> cb_action_tweak(session, file)
      [] b = "action_new_topic" -> cb_action_new_topic(session, file)
      [] b = "action_new" -> cb_action_new(session, file)
      [] OTHER -> Done(session, <<>>, file)

----------------------------------------------------------------------------
(* handle_message *)

\* a comparison that keeps the letter case
lower_keeping_case(text) == text

\* str.lower() on the texts the model types
lower(text) == IF text \in {"skip", "Skip", "SKIP"} THEN "skip" ELSE text

\* str.strip() on the texts the model types
strip(text) ==
    CASE text = " Ms Rivera " -> "Ms Rivera"
      [] text = " skip" -> "skip"
      [] OTHER -> text

\* a share step that thanks for sharing whether or not the save succeeded
msg_teacher_name_always_thanks(session, text, file, token, env) ==
    LET teacher_name == IF lower(text) = "skip" THEN "Anonymous" ELSE text
        save == IF session.last_lesson # None
                THEN save_lesson_to_github(token, file,
                        create_lesson_record(session.params, session.last_lesson,
                                             teacher_name, TRUE, env.id), env.net)
                ELSE [saved |-> FALSE, file |-> file]
    IN Done([session EXCEPT !.state = "idle", !.pending_share = FALSE],
            <<Msg("message", "Shared with the community!", {}),
              Msg("message", "What next?", FollowUpKeyboard)>>, save.file)

msg_teacher_name(session, text, file, token, env) ==
    LET teacher_name == IF lower(text) = "skip" THEN "Anonymous" ELSE text
        has_lesson == session.last_lesson # None
        save == IF has_lesson
                THEN save_lesson_to_github(token, file,
                        create_lesson_record(session.params, session.last_lesson,
                                             teacher_name, TRUE, env.id), env.net)
                ELSE [saved |-> FALSE, file |-> file]
        note == IF ~has_lesson THEN <<>>
                ELSE IF save.saved
                THEN <<Msg("message", "Shared with the community!", {})>>
                ELSE <<Msg("message", "Saved! (Note: Community sharing is being set up)", {})>>
    IN Done([session EXCEPT !.state = "idle", !.pending_share = FALSE],
            note \o <<Msg("message", "What next?", FollowUpKeyboard)>>, save.file)

msg_subject_text(session, text, file) ==
    Done([session EXCEPT !.params = dict_set(@, "subject", text), !.state = "awaiting_topic"],
         <<Msg("message", "What specific topic?", {})>>, file)

msg_topic(session, text, file) ==
    Done([session EXCEPT !.params = dict_set(@, "topic", text), !.state = "awaiting_ages"],
         <<Msg("message", "What are the student ages?", AgesKeyboardTyped)>>, file)

\* a typed country that goes on to the style question
msg_country_text_to_style(session, text, file) ==
    Done([session EXCEPT !.params = dict_set(@, "country", text),
                         !.state = "awaiting_style"],
         <<Msg("message", "What teaching style works best?", StyleKeyboard)>>, file)

msg_country_text(session, text, file) ==
    Done([session EXCEPT !.params = dict_set(@, "country", text),
                         !.state = "awaiting_materials"],
         <<Msg("message", "What materials do you have?", MaterialsKeyboard)>>, file)

msg_quick_input(session, text, file, env) ==
    LET s1 == [session EXCEPT
                  !.params = dict_set(dict_set(@, "topic", text), "depth", "quick")]
        generating == <<Msg("message", "Generating quick lesson...", {})>>
    IN IF env.gen = "error"
       THEN [session |-> [s1 EXCEPT !.state = state_after_generation_error(s1)],
             sent |-> generating \o <<ErrorNotice>>,
             raised |-> FALSE, calls |-> 1, pdf |-> "not_called", file |-> file]
       ELSE IF len(env.gen) > MAX_MESSAGE_LENGTH     \* reply_text raises
       THEN [session |-> [s1 EXCEPT !.last_lesson = env.gen, !.state = "lesson_generated"],
             sent |-> generating \o <<ErrorNotice>>,
             raised |-> FALSE, calls |-> 1, pdf |-> "not_called", file |-> file]
       ELSE [session |-> [s1 EXCEPT !.last_lesson = env.gen, !.state = "lesson_generated"],
             sent |-> generating
                      \o <<LessonMsg("message", "lesson", 0,
                                     Slice(env.gen, 0, len(env.gen)), {})>>
                      \o <<Msg("message", "What next?", QuickDoneKeyboard)>>,
             raised |-> FALSE, calls |-> 1, pdf |-> "not_called", file |-> file]

\* a tweak whose except branch forgets the lesson held
msg_tweak_effect_forgetting(session, text, file, env) ==
    LET s1 == [session EXCEPT !.params = dict_set(@, "special_requests", text)]
        revising == <<Msg("message", "Revising lesson...", {})>>
    IN IF env.gen = "error"
       THEN [session |-> [s1 EXCEPT !.last_lesson = None],
             sent |-> revising \o <<ErrorNotice>>,
             raised |-> FALSE, calls |-> 1, pdf |-> "not_called", file |-> file]
       ELSE
       LET lesson_content == env.gen
           s2 == [s1 EXCEPT !.last_lesson = lesson_content]
           whole == Slice(lesson_content, 0, len(lesson_content))
           pdf == create_lesson_pdf(lesson_content, s2.params, env.faults)
           next == <<Msg("message", "What next?", TweakDoneKeyboard)>>
       IN IF dict_get(s2.params, "depth", "standard") = "quick"
          THEN [session |-> s2,
                sent |-> IF len(lesson_content) > MAX_MESSAGE_LENGTH   \* reply_text raises
                         THEN revising \o <<ErrorNotice>>
                         ELSE revising \o <<LessonMsg("message", "lesson", 0, whole, {})>>
                              \o next,
                raised |-> FALSE, calls |-> 1, pdf |-> "not_called", file |-> file]
          ELSE IF pdf.raised
          THEN [session |-> s2, sent |-> revising \o <<ErrorNotice>>,
                raised |-> FALSE, calls |-> 1, pdf |-> "raised", file |-> file]
          ELSE [session |-> s2,
                sent |-> revising
                         \o <<LessonMsg("document", pdf.doc, 0, whole, {})>>
                         \o (IF len(lesson_content) < 4000
                             THEN <<LessonMsg("message", "lesson", 0, whole, {})>> ELSE <<>>)
                         \o next,
                raised |-> FALSE, calls |-> 1, pdf |-> pdf.doc, file |-> file]

\* the awaiting_tweak branch but for the prompt it sends
msg_tweak_effect(session, text, file, env) ==
    LET s1 == [session EXCEPT !.params = dict_set(@, "special_requests", text)]
        revising == <<Msg("message", "Revising lesson...", {})>>
    IN IF env.gen = "error"
       THEN [session |-> s1, sent |-> revising \o <<ErrorNotice>>,
             raised |-> FALSE, calls |-> 1, pdf |-> "not_called", file |-> file]
       ELSE
       LET lesson_content == env.gen
           s2 == [s1 EXCEPT !.last_lesson = lesson_content]
           whole == Slice(lesson_content, 0, len(lesson_content))
           pdf == create_lesson_pdf(lesson_content, s2.params, env.faults)
           next == <<Msg("message", "What next?", TweakDoneKeyboard)>>
       IN IF dict_get(s2.params, "depth", "standard") = "quick"
          THEN [session |-> s2,
                sent |-> IF len(lesson_content) > MAX_MESSAGE_LENGTH   \* reply_text raises
                         THEN revising \o <<ErrorNotice>>
                         ELSE revising \o <<LessonMsg("message", "lesson", 0, whole, {})>>
                              \o next,
                raised |-> FALSE, calls |-> 1, pdf |-> "not_called", file |-> file]
          ELSE IF pdf.raised
          THEN [session |-> s2, sent |-> revising \o <<ErrorNotice>>,
                raised |-> FALSE, calls |-> 1, pdf |-> "raised", file |-> file]
          ELSE [session |-> s2,
                sent |-> revising
                         \o <<LessonMsg("document", pdf.doc, 0, whole, {})>>
                         \o (IF len(lesson_content) < 4000
                             THEN <<LessonMsg("message", "lesson", 0, whole, {})>> ELSE <<>>)
                         \o next,
                raised |-> FALSE, calls |-> 1, pdf |-> pdf.doc, file |-> file]

\* the tweak prompt, handed to the backend without build_lesson_prompt
tweak_prompt(last_lesson, text) ==
    Built(<<Field("Here is a lesson plan I previously created: {}", last_lesson),
            Field("The teacher has requested these changes: {}", text),
            Text("Please revise the lesson plan incorporating their feedback.")>>)

\* a handler effect that names the prompt it sent
with_prompt(r, prompt) ==
    [k \in (DOMAIN r) \cup {"prompt"} |-> IF k = "prompt" THEN prompt ELSE r[k]]

msg_tweak(session, text, file, env) ==
    with_prompt(msg_tweak_effect(session, text, file, env),
                tweak_prompt(session.last_lesson, text))

\* the last branch, taken in every state no earlier branch names
msg_natural(session, text, file) ==
    Done([session EXCEPT
             !.params = dict_set(dict_set(EmptyDict, "topic", text), "depth", "standard"),
             !.state = "confirming_natural"],
         <<Msg("message", "How detailed?", NaturalKeyboard)>>, file)

handle_message(session, message_text, file, token, env) ==
    LET state == session.state
        text == strip(message_text)
    IN
    CASE state = "awaiting_teacher_name" -> msg_teacher_name(session, text, file, token, env)
      [] state = "awaiting_subject_text" -> msg_subject_text(session, text, file)
      [] state = "awaiting_topic" -> msg_topic(session, text, file)
      [] state = "awaiting_country_text" -> msg_country_text(session, text, file)
      [] state = "awaiting_quick_input" -> msg_quick_input(session, text, file, env)
      [] state = "awaiting_tweak" -> msg_tweak(session, text, file, env)
      [] OTHER -> msg_natural(session, text, file)

----------------------------------------------------------------------------
(* handle_voice *)

\* transcript: the text transcribe_voice returned, None when it failed or
\* the download raised
handle_voice(session, groq, transcript, file) ==
    IF ~groq
    THEN Done(session, <<Msg("message", "Voice input is not configured.", {})>>, file)
    ELSE IF transcript = None
    THEN Done(session, <<Msg("message", "Transcribing...", {}),
                         Msg("message", "Couldn't transcribe that.", {})>>, file)
    ELSE Done([session EXCEPT
                  !.params = dict_set(dict_set(EmptyDict, "topic", transcript),
                                      "depth", "standard"),
                  !.state = "confirming_voice"],
              <<Msg("message", "Transcribing...", {}),
                Msg("message", "Generate lesson plan?", VoiceKeyboard)>>, file)

----------------------------------------------------------------------------
(* What each state asks the user for *)

\* the branches of handle_callback that the keyboards shown in `state` lead to
expected_branches(state) ==
    CASE state = "awaiting_subject" -> {"subject_"}
      [] state = "awaiting_topic" -> {"topiccat_", "topic_", "subject_"}
      [] state = "awaiting_ages" -> {"ages_"}
      [] state = "awaiting_duration" -> {"duration_"}
      [] state = "awaiting_country" -> {"country_"}
      [] state = "awaiting_materials" -> {"materials_"}
      [] state = "awaiting_style" -> {"style_"}
      [] state = "awaiting_depth" -> {"depth_"}
      [] state = "awaiting_format" -> {"format_"}
      [] state = "lesson_generated" ->
            {"share_yes", "share_no", "action_tweak", "action_new_topic", "depth_"}
      [] state = "idle" -> {"action_tweak", "action_new_topic"}
      [] state = "confirming_natural" -> {"depth_"}
      [] state = "confirming_voice" -> {"depth_"}
      [] OTHER -> {}

\* the states in which the bot has asked for typed text
TextStates ==
    {"awaiting_teacher_name", "awaiting_subject_text", "awaiting_topic",
     "awaiting_country_text", "awaiting_quick_input", "awaiting_tweak"}
\* the states in which a typed or spoken request starts a lesson
RequestStates == {"idle", "confirming_natural", "confirming_voice"}

\* the branches of the menus /start and /browse put on screen in any state
\* ("none": a button no branch takes)
MenuBranches ==
    {"action_new", "action_browse", "browse_by_subject", "search_subject_",
     "get_lesson_", "none"}

expects_callback(state, data) ==
    callback_branch(data) \in expected_branches(state) \cup MenuBranches
expects_text(state) == state \in TextStates \cup RequestStates
expects_voice(state) == state \in RequestStates

----------------------------------------------------------------------------
(* The bot's events as actions *)

Users == {"u1"}

\* how many events of a run may be ones the current prompt did not ask for
MaxStrays == 1

\* an update: its kind, its callback_data, text or command, and what the
\* generation backend answered if the handler asked it
Update(kind, data, gen) == [kind |-> kind, data |-> data, gen |-> gen]
NoUpdate == Update("none", None, "not_called")
asked_backend(r, env) == IF r.calls > 0 THEN env.gen ELSE "not_called"

\* an event is taken when it is `asked` for, or while strays are left
Stray(asked) ==
    /\ asked \/ strays < MaxStrays
    /\ strays' = IF asked THEN strays ELSE strays + 1

\* a handler effect under a cache of lessons: no backend request is counted
\* when the lesson obtained is the one the session already held
Apply_reusing(user_id, r) ==
    /\ user_sessions' = put_session(user_sessions, user_id, r.session)
    /\ sent' = r.sent
    /\ raised' = r.raised
    /\ backend_calls' = IF r.session.last_lesson = get_session(user_sessions, user_id).last_lesson
                        THEN 0 ELSE r.calls
    /\ pdf_result' = r.pdf
    /\ lessons_file' = r.file
    /\ generation' = IF r.calls > 0
                     THEN Returned(GenerationCall("bot", r.session.params, r.session.params),
                                   IF "prompt" \in DOMAIN r THEN r.prompt
                                   ELSE build_lesson_prompt(r.session.params),
                                   NoResponse)
                     ELSE NoCall
    /\ UNCHANGED <<GITHUB_TOKEN, groq_client, appenders, rendering>>

\* the effect of a handler that called get_session(user_id)
Apply(user_id, r) ==
    /\ user_sessions' = put_session(user_sessions, user_id, r.session)
    /\ sent' = r.sent
    /\ raised' = r.raised
    /\ backend_calls' = r.calls
    /\ pdf_result' = r.pdf
    /\ lessons_file' = r.file
    /\ generation' = IF r.calls > 0
                     THEN Returned(GenerationCall("bot", r.session.params, r.session.params),
                                   IF "prompt" \in DOMAIN r THEN r.prompt
                                   ELSE build_lesson_prompt(r.session.params),
                                   NoResponse)
                     ELSE NoCall
    /\ UNCHANGED <<GITHUB_TOKEN, groq_client, appenders, rendering>>

\* the effect of a handler that only answers
Answer(out) ==
    /\ sent' = out
    /\ raised' = FALSE
    /\ backend_calls' = 0
    /\ pdf_result' = "not_called"
    /\ generation' = NoCall
    /\ UNCHANGED <<user_sessions, lessons_file, GITHUB_TOKEN, groq_client, appenders,
                   rendering>>

\* the repository outcomes worth telling apart under the configuration
StoreNets == IF GITHUB_TOKEN THEN Nets ELSE {"ok"}
StoreIds == IF GITHUB_TOKEN THEN LessonIds ELSE {"les_a"}

CallbackEnvs(data) ==
    LET b == callback_branch(data) IN
    IF b = "format_" THEN {Env(g, f, "ok", FALSE, "les_a") : g \in GenOutcomes, f \in PdfFaults}
    ELSE IF b = "share_no"
    THEN {Env("error", NoFaults, n, FALSE, i) : n \in StoreNets, i \in StoreIds}
    ELSE IF b \in {"action_browse", "search_subject_"}
    THEN {Env("error", NoFaults, n, FALSE, "les_a") : n \in StoreNets}
    ELSE IF b = "get_lesson_"
    THEN {Env("error", f, n, FALSE, "les_a") : f \in PdfFaults, n \in StoreNets}
    ELSE {QuietEnv}

MessageEnvs(state) ==
    IF state = "awaiting_teacher_name"
    THEN {Env("error", NoFaults, n, w, i) : n \in StoreNets, w \in BOOLEAN, i \in StoreIds}
    ELSE IF state = "awaiting_quick_input"
    THEN {Env(g, NoFaults, "ok", FALSE, "les_a") : g \in GenOutcomes}
    ELSE IF state = "awaiting_tweak"
    THEN {Env(g, f, "ok", FALSE, "les_a") : g \in GenOutcomes, f \in PdfFaults}
    ELSE {QuietEnv}

\* /start: statistics and the welcome menu
StartCommand(u) ==
    /\ Answer(<<Msg("message", "Welcome to Tooley!", WelcomeKeyboard)>>)
    /\ update' = Update("command", "start", "not_called")
    /\ UNCHANGED strays

\* /help
HelpCommand(u) ==
    /\ Answer(<<Msg("message", "Tooley - Help", {})>>)
    /\ update' = Update("command", "help", "not_called")
    /\ UNCHANGED strays

\* /new
NewCommand(u) ==
    LET r == new_command(get_session(user_sessions, u), "message")
    IN /\ Apply(u, Done(r.session, r.sent, lessons_file))
       /\ update' = Update("command", "new", "not_called")
       /\ UNCHANGED strays

\* /quick
QuickCommand(u) ==
    /\ Apply(u, Done(quick_command(get_session(user_sessions, u)),
                     <<Msg("message", "Quick Lesson", {})>>, lessons_file))
    /\ update' = Update("command", "quick", "not_called")
    /\ UNCHANGED strays

\* /browse
BrowseCommand(u, net) ==
    /\ Answer(<<Msg("message", "Loading lesson library...", {}),
                browse_listing("message", GITHUB_TOKEN, lessons_file, net)>>)
    /\ update' = Update("command", "browse", "not_called")
    /\ UNCHANGED strays

\* a button press
Callback(u, data, env) ==
    LET r == handle_callback(get_session(user_sessions, u), data, lessons_file,
                             GITHUB_TOKEN, env)
    IN /\ Stray(expects_callback(get_session(user_sessions, u).state, data))
       /\ Apply(u, r)
       /\ update' = Update("callback", data, asked_backend(r, env))

\* a text message
Message(u, text, env) ==
    LET r == handle_message(get_session(user_sessions, u), text, lessons_file,
                            GITHUB_TOKEN, env)
    IN /\ Stray(expects_text(get_session(user_sessions, u).state))
       /\ Apply(u, r)
       /\ update' = Update("message", text, asked_backend(r, env))

\* a voice note; get_session is reached only with a transcript
Voice(u, transcript) ==
    LET r == handle_voice(get_session(user_sessions, u), groq_client, transcript,
                          lessons_file)
    IN /\ Stray(expects_voice(get_session(user_sessions, u).state))
       /\ IF groq_client /\ transcript # None THEN Apply(u, r) ELSE Answer(r.sent)
       /\ update' = Update("voice", transcript, "not_called")

\* api.py POST /api/pdf: create_pdf, an exception becomes HTTP 500
ApiPdf(faults) ==
    LET pdf == create_pdf("L1", EmptyDict, faults) IN
    /\ sent' = <<Msg("http", IF pdf.raised THEN "500" ELSE "200", {})>>
    /\ raised' = FALSE
    /\ backend_calls' = 0
    /\ pdf_result' = IF pdf.raised THEN "raised" ELSE pdf.doc
    /\ update' = Update("http", "POST /api/pdf", "not_called")
    /\ generation' = NoCall
    /\ UNCHANGED <<user_sessions, lessons_file, GITHUB_TOKEN, groq_client, appenders,
                   strays, rendering>>

----------------------------------------------------------------------------
(* Spec: one teacher talking to a bot whose repository is not configured *)

\* the buttons pressed
CallbackData ==
    {Tok("subject_", "Mathematics"), Tok("subject_", "other"),
     Tok("topic_", "Basic Shapes"), Tok("topic_", "custom"),
     Tok("ages_", "9-11"), Tok("duration_", "30"),
     Tok("country_", "Kenya"), Tok("country_", "other"),
     Tok("materials_", "basic"), Tok("style_", "interactive"),
     Tok("depth_", "standard"),
     Tok("format_", "pdf"), Tok("format_", "both"),
     Tok("share_yes", ""), Tok("share_no", ""),
     Tok("action_browse", ""), Tok("action_tweak", ""), Tok("action_new", ""),
     Tok("action_quick", ""), Tok("action_help", ""),
     Tok("action_edit_transcript", ""), Tok("action_cancel", "")}

\* the texts typed or spoken
Texts == {"Volcanoes"}

Init ==
    /\ user_sessions = EmptyDict
    /\ GITHUB_TOKEN = FALSE
    /\ groq_client = TRUE
    /\ lessons_file = AbsentFile
    /\ sent = <<>>
    /\ raised = FALSE
    /\ backend_calls = 0
    /\ pdf_result = "not_called"
    /\ appenders = EmptyDict
    /\ strays = 0
    /\ update = NoUpdate
    /\ generation = NoCall
    /\ rendering = NoRender

Next ==
    \E u \in Users :
        \/ StartCommand(u)
        \/ HelpCommand(u)
        \/ NewCommand(u)
        \/ QuickCommand(u)
        \/ \E net \in StoreNets : BrowseCommand(u, net)
        \/ \E data \in CallbackData : \E env \in CallbackEnvs(data) : Callback(u, data, env)
        \/ \E text \in Texts :
              \E env \in MessageEnvs(get_session(user_sessions, u).state) :
                  Message(u, text, env)
        \/ \E transcript \in Texts \cup {None} : Voice(u, transcript)
        \/ \E faults \in PdfFaults : ApiPdf(faults)

Spec == Init /\ [][Next]_vars

----------------------------------------------------------------------------
(* SpecStore: save_lesson_to_github calls of several updates, request by
   request, against one lessons.json *)

Appenders == {"a1", "a2"}

\* how many save_lesson_to_github calls a run makes
MaxAppends == 3

\* the record of the n-th call
StoreLesson(n) == create_lesson_record(EmptyDict, "L1", "Teacher", TRUE, ToString(n))

\* a lessons.json of n records written earlier
SeedLessons(n) == [i \in 1..n |-> StoreLesson(0 - i)]

\* a call's frame: where it stands, its argument, its locals sha and lessons,
\* the value it returned ("True", "False", None before it returns), the PUT
\* requests it has sent, and the calls its process has made so far
IdleFrame ==
    [pc |-> "idle", lesson |-> None, sha |-> <<>>, lessons |-> <<>>,
     result |-> None, puts |-> 0, calls |-> 0]

RECURSIVE calls_of(_)
calls_of(ps) ==
    IF ps = {} THEN 0
    ELSE LET p == CHOOSE q \in ps : TRUE IN appenders[p].calls + calls_of(ps \ {p})
calls_made == calls_of(Appenders)

\* the call starts; without GITHUB_TOKEN it returns False at once
SaveCall(p) ==
    /\ appenders[p].pc = "idle"
    /\ calls_made < MaxAppends
    /\ appenders' = [appenders EXCEPT ![p] =
            [IdleFrame EXCEPT !.pc = IF GITHUB_TOKEN THEN "get" ELSE "done",
                              !.lesson = StoreLesson(calls_made + 1),
                              !.result = IF GITHUB_TOKEN THEN None ELSE "False",
                              !.calls = appenders[p].calls + 1]]
    /\ UNCHANGED <<user_sessions, GITHUB_TOKEN, groq_client, lessons_file, sent, raised,
                   backend_calls, pdf_result, strays, update, generation, rendering>>

\* the GET is answered ("answered": 200 for an existing file, 404 otherwise;
\* "error_status": any other status) or raises ("raises")
SaveGet(p, response) ==
    LET f == appenders[p]
        status200 == response = "answered" /\ lessons_file.exists
        read == read_for_save(lessons_file, status200)
    IN /\ f.pc = "get"
       /\ appenders' = [appenders EXCEPT ![p] =
               IF response = "raises" \/ (status200 /\ ~lessons_file.valid)
               THEN [f EXCEPT !.pc = "done", !.result = "False"]
               ELSE [f EXCEPT !.pc = "put", !.sha = read.sha, !.lessons = read.lessons]]
       /\ UNCHANGED <<user_sessions, GITHUB_TOKEN, groq_client, lessons_file, sent, raised,
                      backend_calls, pdf_result, strays, update, generation, rendering>>

\* the PUT is sent and answered; raise_for_status turns a refusal into the
\* except branch
SavePut(p, response) ==
    LET f == appenders[p]
        body == truncate(insert_front(f.lessons, f.lesson))
        accepted == response = "answered"
                    /\ put_accepted(lessons_file, put_sha(f, lessons_file))
    IN /\ f.pc = "put"
       /\ lessons_file' = IF accepted THEN JsonFile(body) ELSE lessons_file
       /\ appenders' = [appenders EXCEPT ![p] =
               [f EXCEPT !.pc = "done", !.result = IF accepted THEN "True" ELSE "False",
                          !.puts = @ + 1]]
       /\ UNCHANGED <<user_sessions, GITHUB_TOKEN, groq_client, sent, raised,
                      backend_calls, pdf_result, strays, update, generation, rendering>>

\* the call has returned; its update handler goes on and ends
SaveReturn(p) ==
    /\ appenders[p].pc = "done"
    /\ appenders' = [appenders EXCEPT ![p] = [@ EXCEPT !.pc = "idle"]]
    /\ UNCHANGED <<user_sessions, GITHUB_TOKEN, groq_client, lessons_file, sent, raised,
                   backend_calls, pdf_result, strays, update, generation, rendering>>

Responses == {"answered", "error_status", "raises"}

\* the files a run may start from
SeedFiles ==
    {AbsentFile, GarbageFile}
    \cup {JsonFile(SeedLessons(n)) : n \in {0, 1, LessonCap - 1, LessonCap}}

InitStore ==
    /\ user_sessions = EmptyDict
    /\ GITHUB_TOKEN \in BOOLEAN
    /\ groq_client = TRUE
    /\ lessons_file \in SeedFiles
    /\ sent = <<>>
    /\ raised = FALSE
    /\ backend_calls = 0
    /\ pdf_result = "not_called"
    /\ appenders = [p \in Appenders |-> IdleFrame]
    /\ strays = 0
    /\ update = NoUpdate
    /\ generation = NoCall
    /\ rendering = NoRender

NextStore ==
    \E p \in Appenders :
        \/ SaveCall(p)
        \/ \E response \in Responses : SaveGet(p, response)
        \/ \E response \in Responses : SavePut(p, response)
        \/ SaveReturn(p)

SpecStore == InitStore /\ [][NextStore]_vars

----------------------------------------------------------------------------
(* SpecShare: one teacher who writes quick lessons and shares them or keeps
   them private, with the lesson repository configured or not *)

\* how many records a run lets the bot write into lessons.json
MaxShared == 1

\* the records of `lessons` that this bot wrote
written(lessons) == SelectSeq(lessons, LAMBDA l : l.id \in LessonIds)

ShareData ==
    {Tok("share_yes", ""), Tok("share_no", ""), Tok("action_browse", ""),
     Tok("get_lesson_", "les_a"), Tok("action_new", "")}

\* what is typed in `state`: a display name when one is asked for, else a topic
ShareTexts(state) ==
    IF state = "awaiting_teacher_name" THEN {"skip", "SKIP", "Ms Rivera"}
    ELSE {"Fractions"}

InitShare ==
    /\ user_sessions = EmptyDict
    /\ GITHUB_TOKEN \in BOOLEAN
    /\ groq_client = TRUE
    /\ lessons_file \in {AbsentFile, GarbageFile, JsonFile(SeedLessons(0)),
                         JsonFile(SeedLessons(6))}
    /\ sent = <<>>
    /\ raised = FALSE
    /\ backend_calls = 0
    /\ pdf_result = "not_called"
    /\ appenders = EmptyDict
    /\ strays = 0
    /\ update = NoUpdate
    /\ generation = NoCall
    /\ rendering = NoRender

\* the step leaves at most MaxShared records of this bot in the file
WithinShared == Len(written(lessons_file'.lessons)) <= MaxShared

NextShare ==
    \E u \in Users :
        \/ QuickCommand(u)
        \/ \E net \in StoreNets : BrowseCommand(u, net)
        \/ \E data \in ShareData : \E env \in CallbackEnvs(data) :
              Callback(u, data, env) /\ WithinShared
        \/ \E text \in ShareTexts(get_session(user_sessions, u).state) :
              \E env \in MessageEnvs(get_session(user_sessions, u).state) :
                  Message(u, text, env) /\ WithinShared

SpecShare == InitShare /\ [][NextShare]_vars

----------------------------------------------------------------------------
(* SpecPrompt: generate_lesson calls, one per behaviour, of the HTTP endpoint
   on bounded request bodies and of the bot on the wizard's answers *)

NonNumericDurations == {"abc", "forty-five", "", "45 min"}
MaterialsValues == {"none", "basic", "standard", "projector"}
StyleValues == {"interactive", "structured", "storytelling", "mixed", "socratic"}

\* request bodies of POST /api/lesson
Bodies ==
    {[subject |-> "Mathematics", topic |-> "Fractions"]}
    \cup {[subject |-> "Mathematics", topic |-> "Fractions", country |-> "Kenya",
           duration |-> d, materials |-> m, style |-> s, language |-> l] :
             d \in {ToString(n) : n \in 0..MaxDuration} \cup NonNumericDurations,
             m \in MaterialsValues, s \in StyleValues, l \in {"en", "es"}}

\* the buttons a teacher presses from the duration question on
WizardAnswers ==
    [duration : {strip_prefix(b) : b \in DurationKeyboard},
     materials : {strip_prefix(b) : b \in MaterialsKeyboard},
     style : {strip_prefix(b) : b \in StyleKeyboard},
     depth : {strip_prefix(b) : b \in DepthKeyboard}]

\* session['params'] after the wizard took these answers
wizard_params(answers) ==
    LET s0 == [NewSession EXCEPT
                  !.params = dict_set(dict_set(dict_set(@, "subject", "Mathematics"),
                                               "topic", "Fractions"), "ages", "9-11")]
        s1 == cb_duration(s0, Tok("duration_", answers.duration), AbsentFile).session
        s2 == cb_materials(s1, Tok("materials_", answers.materials), AbsentFile).session
        s3 == cb_style(s2, Tok("style_", answers.style), AbsentFile).session
        s4 == cb_depth(s3, Tok("depth_", answers.depth), AbsentFile).session
    IN s4.params

\* api.py create_lesson: generate_lesson builds the prompt and asks the
\* backend; any exception becomes HTTP 500 with str(e) as its detail
ApiLesson(gen) ==
    /\ generation.caller = "api"
    /\ generation.pc = "called"
    /\ LET built == api_build_lesson_prompt(generation.params)
           response == IF built.raised THEN [status |-> "500", detail |-> built.error]
                       ELSE IF gen = "error"
                       THEN [status |-> "500", detail |-> "backend error"]
                       ELSE [status |-> "200", detail |-> gen]
       IN /\ generation' = Returned(generation, built, response)
          /\ sent' = <<Msg("http", response.status, {})>>
          /\ backend_calls' = IF built.raised THEN 0 ELSE 1
          /\ update' = Update("http", "POST /api/lesson",
                              IF built.raised THEN "not_called" ELSE gen)
    /\ raised' = FALSE
    /\ pdf_result' = "not_called"
    /\ UNCHANGED <<user_sessions, lessons_file, GITHUB_TOKEN, groq_client, appenders,
                   strays, rendering>>

\* bot.py generate_lesson(session['params']): a backend failure is raised to
\* the calling handler
GenerateLesson(gen) ==
    /\ generation.caller = "bot"
    /\ generation.pc = "called"
    /\ generation' = Returned(generation, build_lesson_prompt(generation.params),
                              NoResponse)
    /\ backend_calls' = 1
    /\ raised' = (gen = "error")
    /\ update' = Update("call", "generate_lesson", gen)
    /\ UNCHANGED <<user_sessions, lessons_file, GITHUB_TOKEN, groq_client, appenders,
                   strays, sent, pdf_result, rendering>>

InitPrompt ==
    /\ user_sessions = EmptyDict
    /\ GITHUB_TOKEN = FALSE
    /\ groq_client = TRUE
    /\ lessons_file = AbsentFile
    /\ sent = <<>>
    /\ raised = FALSE
    /\ backend_calls = 0
    /\ pdf_result = "not_called"
    /\ appenders = EmptyDict
    /\ strays = 0
    /\ update = NoUpdate
    /\ generation \in {GenerationCall("api", body, LessonRequest(body)) : body \in Bodies}
                      \cup {GenerationCall("bot", a, wizard_params(a)) : a \in WizardAnswers}
    /\ rendering = NoRender

NextPrompt ==
    \/ \E gen \in GenOutcomes : ApiLesson(gen)
    \/ \E gen \in GenOutcomes : GenerateLesson(gen)

SpecPrompt == InitPrompt /\ [][NextPrompt]_vars

----------------------------------------------------------------------------
(* SpecDuration: the sub-timings of the endpoint's prompt for the decimal
   literals of up to MaxDigits digits and for durations from 2^52 on *)

MaxDigits == 3
WideDurations ==
    {<<"9", "0", "0", "7", "1", "9", "9", "2", "5", "4", "7", "4", "0", "9", "9", "9">>,
     <<"1", "5", "2", "8", "1", "1", "6", "5", "3", "1", "5", "5", "9", "1", "0", "1", "3">>,
     <<"8", "8", "6", "5", "5", "8", "8", "6", "5", "4", "5", "6", "1", "7", "8", "8">>,
     <<"1", "0", "0", "0", "0", "0", "0", "0", "0", "0", "0", "0", "0", "0", "0", "0", "0">>}
DurationLiterals == UNION {[1..n -> Digits] : n \in 1..MaxDigits} \cup WideDurations

\* api.py build_lesson_prompt, the three interpolated sub-timings
ApiSubTimings ==
    /\ generation.pc = "called"
    /\ generation' = [generation EXCEPT !.pc = "returned",
                                        !.minutes = sub_timings(generation.duration)]
    /\ UNCHANGED <<user_sessions, GITHUB_TOKEN, groq_client, lessons_file, sent, raised,
                   backend_calls, pdf_result, appenders, strays, update, rendering>>

InitDuration ==
    /\ user_sessions = EmptyDict
    /\ GITHUB_TOKEN = FALSE
    /\ groq_client = TRUE
    /\ lessons_file = AbsentFile
    /\ sent = <<>>
    /\ raised = FALSE
    /\ backend_calls = 0
    /\ pdf_result = "not_called"
    /\ appenders = EmptyDict
    /\ strays = 0
    /\ update = NoUpdate
    /\ generation \in {DurationCall(digits) : digits \in DurationLiterals}
    /\ rendering = NoRender

NextDuration == ApiSubTimings

SpecDuration == InitDuration /\ [][NextDuration]_vars

----------------------------------------------------------------------------
(* SpecRender: one renderer call per behaviour on a bounded lesson text *)

MaxContentLen == 4
Alphabet ==
    {NL, " ", "#", "*", "-", "1", ".", ":", "a",
     "bullet", "e_acute", "arrow", "en_dash", "snowman"}
Contents == UNION {[1..n -> Alphabet] : n \in 0..MaxContentLen}

\* the frame every action of SpecRender leaves alone
RenderFrame ==
    UNCHANGED <<user_sessions, GITHUB_TOKEN, groq_client, lessons_file, sent, raised,
                backend_calls, pdf_result, appenders, strays, update, generation>>

\* bot.py LessonPDF.add_lesson_content(content, params)
AddLessonContent ==
    /\ rendering.pc = "called"
    /\ rendering' = Rendered(rendering, "pdf", add_lesson_content(rendering.content))
    /\ RenderFrame

\* bot.py create_lesson_html(content, params)
CreateLessonHtml ==
    /\ rendering.pc = "called"
    /\ rendering' = [Rendered(rendering, "html", create_lesson_html(rendering.content))
                        EXCEPT !.markup = html_markup(rendering.content)]
    /\ RenderFrame

\* api.py create_pdf(content, params)
CreatePdf ==
    /\ rendering.pc = "called"
    /\ rendering' = Rendered(rendering, "api_pdf", create_pdf_content(rendering.content))
    /\ RenderFrame

InitRender ==
    /\ user_sessions = EmptyDict
    /\ GITHUB_TOKEN = FALSE
    /\ groq_client = TRUE
    /\ lessons_file = AbsentFile
    /\ sent = <<>>
    /\ raised = FALSE
    /\ backend_calls = 0
    /\ pdf_result = "not_called"
    /\ appenders = EmptyDict
    /\ strays = 0
    /\ update = NoUpdate
    /\ generation = NoCall
    /\ rendering \in {RenderCall(content) : content \in Contents}

NextRender ==
    \/ AddLessonContent
    \/ CreateLessonHtml
    \/ CreatePdf

SpecRender == InitRender /\ [][NextRender]_vars

----------------------------------------------------------------------------
(* SpecHtml: create_lesson_html on the texts, up to MaxListLen characters,
   made of list items, plain lines and blank lines *)

MaxListLen == 8
ListAlphabet == {NL, "-", " ", "a"}
ListContents == UNION {[1..n -> ListAlphabet] : n \in 0..MaxListLen}

InitHtml ==
    /\ user_sessions = EmptyDict
    /\ GITHUB_TOKEN = FALSE
    /\ groq_client = TRUE
    /\ lessons_file = AbsentFile
    /\ sent = <<>>
    /\ raised = FALSE
    /\ backend_calls = 0
    /\ pdf_result = "not_called"
    /\ appenders = EmptyDict
    /\ strays = 0
    /\ update = NoUpdate
    /\ generation = NoCall
    /\ rendering \in {RenderCall(content) : content \in ListContents}

NextHtml == CreateLessonHtml

SpecHtml == InitHtml /\ [][NextHtml]_vars

----------------------------------------------------------------------------
(* SpecUsers: two teachers whose quick lessons and share decisions interleave *)

TwoUsers == {"u1", "u2"}
UsersData == {Tok("share_yes", ""), Tok("share_no", ""), Tok("action_new", "")}

\* an event of user u
UserQuick(u) == QuickCommand(u)
UserCallback(u) ==
    \E data \in UsersData : \E env \in CallbackEnvs(data) : Callback(u, data, env)
UserMessage(u) ==
    \E text \in ShareTexts(get_session(user_sessions, u).state) :
        \E env \in MessageEnvs(get_session(user_sessions, u).state) : Message(u, text, env)

NextUsers ==
    \/ \E u \in TwoUsers : UserQuick(u)
    \/ \E u \in TwoUsers : UserCallback(u)
    \/ \E u \in TwoUsers : UserMessage(u)

SpecUsers == Init /\ [][NextUsers]_vars

----------------------------------------------------------------------------
(* SpecWizard: one teacher answering the wizard's questions, with the
   "Skip", "Other" and "Mix / No preference" buttons among the answers *)

WizardData ==
    {Tok("subject_", "Mathematics"), Tok("subject_", "other"),
     Tok("topic_", "Basic Shapes"), Tok("ages_", "9-11"), Tok("duration_", "30"),
     Tok("country_", "Kenya"), Tok("country_", "skip"), Tok("country_", "other"),
     Tok("materials_", "basic"),
     Tok("style_", "interactive"), Tok("style_", "mixed"),
     Tok("depth_", "standard")}
WizardTexts == {"Geography"}

NextWizard ==
    \/ \E u \in Users : NewCommand(u)
    \/ \E u \in Users : \E data \in WizardData : Callback(u, data, QuietEnv)
    \/ \E u \in Users : \E text \in WizardTexts : Message(u, text, QuietEnv)

SpecWizard == Init /\ [][NextWizard]_vars

----------------------------------------------------------------------------
(* SpecRecord: one teacher who has one lesson written for a typed topic, in a
   library that holds another teacher's lesson, and then shares it, keeps it
   private, types and opens the library's lesson, in any order *)

\* how many records a run lets the bot write into lessons.json
MaxRecords == 2

\* the other teacher's lesson, and the id of the records of this run
SharedLesson ==
    create_lesson_record([topic |-> "Volcanoes", subject |-> "Science",
                          ages |-> "12-14", country |-> "Kenya", duration |-> "30"],
                         "L2", "Ms Okoro", TRUE, "les_a")
recorded(lessons) == SelectSeq(lessons, LAMBDA l : l.id = "les_b")

\* the backend answers, the renderer and the repository work
RecordEnv == Env("L1", NoFaults, "ok", FALSE, "les_b")

RecordData ==
    {Tok("depth_", "standard"), Tok("format_", "text"), Tok("share_yes", ""),
     Tok("share_no", ""), Tok("get_lesson_", "les_a")}

\* what is typed: the topic of the lesson, then a display name when one is
\* asked for and another topic otherwise
RecordTexts(session) ==
    IF session.last_lesson = None THEN {"Fractions"}
    ELSE IF session.state = "awaiting_teacher_name" THEN {"Ms Rivera"}
    ELSE {"Volcanoes"}

InitRecord ==
    /\ user_sessions = EmptyDict
    /\ GITHUB_TOKEN = TRUE
    /\ groq_client = TRUE
    /\ lessons_file = JsonFile(<<SharedLesson>>)
    /\ sent = <<>>
    /\ raised = FALSE
    /\ backend_calls = 0
    /\ pdf_result = "not_called"
    /\ appenders = EmptyDict
    /\ strays = 0
    /\ update = NoUpdate
    /\ generation = NoCall
    /\ rendering = NoRender

\* the lesson is asked for once, after its topic was typed
AsksOnce(session) ==
    session.last_lesson = None /\ dict_get(session.params, "topic", None) = "Fractions"

\* the step leaves at most MaxRecords records of this run in the file
WithinRecords == Len(recorded(lessons_file'.lessons)) <= MaxRecords

NextRecord ==
    \/ \E u \in Users : \E data \in RecordData :
          /\ callback_branch(data) = "format_" => AsksOnce(get_session(user_sessions, u))
          /\ Callback(u, data, RecordEnv)
          /\ WithinRecords
    \/ \E u \in Users : \E text \in RecordTexts(get_session(user_sessions, u)) :
          Message(u, text, RecordEnv) /\ WithinRecords

SpecRecord == InitRecord /\ [][NextRecord]_vars

----------------------------------------------------------------------------
(* SpecDelivery: one teacher whose lessons, short and long, arrive in the
   chat: quick lessons, lessons of the wizard's chat formats, and tweaks *)

\* the backend's answers: 1500, 4050 and 9000 characters
DeliveryOutcomes == {"L1", "L3", "L2"}
DeliveryEnvs == {Env(g, NoFaults, "ok", FALSE, "les_a") : g \in DeliveryOutcomes}

DeliveryData ==
    {Tok("depth_", "standard"), Tok("format_", "chat"), Tok("format_", "both"),
     Tok("action_tweak", "")}
DeliveryTexts == {"Fractions"}

NextDelivery ==
    \/ \E u \in Users : QuickCommand(u)
    \/ \E u \in Users : \E data \in DeliveryData : \E env \in DeliveryEnvs :
          Callback(u, data, env)
    \/ \E u \in Users : \E text \in DeliveryTexts : \E env \in DeliveryEnvs :
          Message(u, text, env)

SpecDelivery == Init /\ [][NextDelivery]_vars

----------------------------------------------------------------------------
(* Properties of the conversation (Spec) *)

\* the session of the teacher before and after a step
Before(u) == get_session(user_sessions, u)
After(u) == get_session(user_sessions', u)

\* the step handles a button press / a text message / the command `name`
IsCallback == update'.kind = "callback"
IsMessage == update'.kind = "message"
IsCommand(name) == update'.kind = "command" /\ update'.data = name

\* the step handles a button press or a typed message that the prompt of the
\* state before it did not ask for
StrayStep(u) ==
    \/ IsCallback /\ ~expects_callback(Before(u).state, update'.data)
    \/ IsMessage /\ ~expects_text(Before(u).state)

\* C1: an event that is not expected in the current state (a duration button
\* while the subject is awaited, free text while the ages are awaited) leaves
\* the session's state and params unchanged and raises nothing.
C1_UnexpectedEventIgnored ==
    [][\A u \in Users :
          StrayStep(u) =>
              /\ After(u).state = Before(u).state
              /\ After(u).params = Before(u).params
              /\ ~raised']_vars

\* the callback prefix that answers the question asked in `state`
question_prefix(state) ==
    CASE state = "awaiting_subject" -> "subject_"
      [] state = "awaiting_topic" -> "topic_"
      [] state = "awaiting_ages" -> "ages_"
      [] state = "awaiting_duration" -> "duration_"
      [] state = "awaiting_country" -> "country_"
      [] state = "awaiting_materials" -> "materials_"
      [] state = "awaiting_style" -> "style_"
      [] state = "awaiting_depth" -> "depth_"
      [] state = "awaiting_format" -> "format_"
      [] OTHER -> "none"

\* a button that answers the question itself, not "type my own"
direct_answer(state, data) ==
    /\ callback_branch(data) = question_prefix(state)
    /\ strip_prefix(data) \notin {"other", "custom"}

\* the place of `state` in `order`, 0 when it is not one of its questions
position(order, state) ==
    IF \E i \in DOMAIN order : order[i] = state
    THEN CHOOSE i \in DOMAIN order : order[i] = state
    ELSE 0

\* /new asks order[1]; a button answer to order[i] asks order[i+1]; the
\* answer to the last one asks no further question
FollowsOrder(order) ==
    \A u \in Users :
        LET state == Before(u).state
            i == position(order, state)
        IN /\ IsCommand("new") => After(u).state = order[1]
           /\ (IsCallback /\ i > 0 /\ direct_answer(state, update'.data)) =>
                 IF i < Len(order)
                 THEN After(u).state = order[i + 1]
                 ELSE After(u).state \in {"lesson_generated", state}

\* C2 as stated: the questions follow each other in the order subject, topic,
\* ages, duration, country, materials, style, format, the format question
\* directly after the style selection.
C2_StatedOrder ==
    [][FollowsOrder(<<"awaiting_subject", "awaiting_topic", "awaiting_ages",
                      "awaiting_duration", "awaiting_country", "awaiting_materials",
                      "awaiting_style", "awaiting_format">>)]_vars

\* C2 amended: the order is subject, topic, ages, duration, country,
\* materials, style, depth, format; the format question is the last one and
\* directly follows the depth selection.
C2_QuestionOrder ==
    [][FollowsOrder(<<"awaiting_subject", "awaiting_topic", "awaiting_ages",
                      "awaiting_duration", "awaiting_country", "awaiting_materials",
                      "awaiting_style", "awaiting_depth", "awaiting_format">>)]_vars

\* the format question is on screen after every earlier question was
\* answered by button, in order
C2_Witness ==
    \E u \in Users :
        /\ u \in DOMAIN user_sessions
        /\ user_sessions[u].state = "awaiting_format"
        /\ DOMAIN user_sessions[u].params =
              {"subject", "topic", "ages", "duration", "country", "materials",
               "style", "depth"}
        /\ user_sessions[u].params["subject"] = "Mathematics"
        /\ user_sessions[u].params["topic"] = "Basic Shapes"
        /\ user_sessions[u].params["country"] = "Kenya"
        /\ strays = 0
        /\ update = Update("callback", Tok("depth_", "standard"), "not_called")
        /\ Len(sent) = 1 /\ sent[1].keyboard = FormatKeyboard

\* the step is one in which the generation backend failed after a format
\* choice or a quick input
GenerationFails(u) ==
    /\ update'.gen = "error"
    /\ \/ IsCallback /\ callback_branch(update'.data) = "format_"
       \/ IsMessage /\ Before(u).state = "awaiting_quick_input"

\* some message of `out` is the error notice
has_error_notice(out) == \E i \in DOMAIN out : out[i] = ErrorNotice

\* C3: whenever generation fails, after a format choice or a quick input, the
\* state becomes idle, the user gets an error notice, and the backend was
\* asked once only.
C3_FailureGoesIdle ==
    [][\A u \in Users :
          GenerationFails(u) =>
              /\ After(u).state = "idle"
              /\ has_error_notice(sent')
              /\ backend_calls' = 1]_vars

\* the step is an explicit restart: /new or the New lesson button
Restart == IsCommand("new") \/ (IsCallback /\ update'.data = Tok("action_new", ""))

\* C4: after an explicit restart, from any state, every session field is back
\* at its default: params empty, no last generated text, share-pending false.
C4_RestartResets ==
    [][\A u \in Users :
          Restart =>
              /\ After(u).params = EmptyDict
              /\ After(u).last_lesson = None
              /\ After(u).pending_share = FALSE]_vars

\* the states button answers to the subject, topic and country questions
\* lead to from `session`
subject_button_successors(session) ==
    {cb_subject(session, data, lessons_file).session.state :
        data \in SubjectKeyboard \ {Tok("subject_", "other")}}
topic_button_successors(session) ==
    {cb_topic(session, Tok("topic_", t), lessons_file).session.state :
        t \in get_random_topics("Mathematics")}
country_button_successors(session) ==
    {cb_country(session, data, lessons_file).session.state :
        data \in CountryKeyboard \ {Tok("country_", "other")}}

C6_EveryButtonHandled ==
    \A i \in DOMAIN sent : \A data \in sent[i].keyboard : callback_branch(data) # "none"

\* C7: PDF rendering never raises to its caller; when every layout fails the
\* caller gets a "no document" result instead.
C7_RendererNeverRaises == pdf_result # "raised"

\* the lesson text reaches the chat as message text
delivers_text(out, text) ==
    \E i \in DOMAIN out :
        /\ out[i].kind = "message"
        /\ out[i].lesson # NoLesson
        /\ out[i].lesson[1] = text

\* C8: when the lesson was generated and every PDF layout failed, the user
\* still receives the raw lesson text, whichever format with a PDF was chosen.
C8_TextWhenPdfFails ==
    [][\A u \in Users :
          (/\ IsCallback
           /\ update'.data \in {Tok("format_", "pdf"), Tok("format_", "both")}
           /\ update'.gen \in LessonTexts
           /\ pdf_result' = "raised")
          => delivers_text(sent', update'.gen)]_vars

----------------------------------------------------------------------------
(* Properties of the lesson repository (SpecStore) *)

\* the version token and the records of the file as it stands
current_version == IF lessons_file.exists THEN sha_of(lessons_file) ELSE <<>>
current_lessons == IF lessons_file.exists THEN lessons_file.lessons ELSE <<>>

\* the step is appender p's PUT, and GitHub accepted / refused it
PutAccepted(p) ==
    appenders[p].pc = "put" /\ appenders'[p].pc = "done" /\ appenders'[p].result = "True"
PutRefused(p) ==
    appenders[p].pc = "put" /\ appenders'[p].pc = "done" /\ appenders'[p].result = "False"

\* no two calls that read the same version were both accepted
OneWriterPerVersion ==
    \A p, q \in Appenders :
        (/\ p # q
         /\ appenders[p].result = "True"
         /\ appenders[q].result = "True")
        => appenders[p].sha # appenders[q].sha

\* C9: an accepted append replaces exactly the version its own GET returned;
\* of two appends that read the same version at most one is accepted; a
\* refused append sends no second PUT, returns False and leaves the file as
\* it is.
C9_VersionedAppend ==
    /\ [](OneWriterPerVersion /\ \A p \in Appenders : appenders[p].puts <= 1)
    /\ [][\A p \in Appenders :
             /\ PutAccepted(p) =>
                   /\ appenders[p].sha = current_version
                   /\ appenders[p].lessons = current_lessons
             /\ PutRefused(p) => lessons_file' = lessons_file]_vars

\* both appenders read the same version; a1 was accepted, a2 refused for
\* its stale version after its one PUT
C9_Witness ==
    /\ DOMAIN appenders = Appenders
    /\ appenders["a1"].result = "True"
    /\ appenders["a2"].result = "False"
    /\ appenders["a1"].puts = 1
    /\ appenders["a2"].puts = 1
    /\ appenders["a1"].sha = appenders["a2"].sha
    /\ appenders["a1"].sha # <<>>
    /\ current_lessons = truncate(insert_front(appenders["a1"].lessons,
                                               appenders["a1"].lesson))
    /\ ~put_accepted(lessons_file, appenders["a2"].sha)

\* r followed by L in its order, cut to the cap
appended(r, L) ==
    [i \in 1..Min(Len(L) + 1, LessonCap) |-> IF i = 1 THEN r ELSE L[i - 1]]

\* C10: after an accepted append of r to a store holding L, the store holds r
\* followed by L in its order, cut to the cap of 1000; the store never holds
\* more than the cap.
C10_AppendedInFront ==
    /\ [](Len(current_lessons) <= LessonCap)
    /\ [][\A p \in Appenders :
             PutAccepted(p) =>
                /\ lessons_file'.exists /\ lessons_file'.valid
                /\ lessons_file'.lessons = appended(appenders[p].lesson, current_lessons)]_vars

\* an append to a full store was accepted: the new record is first, the
\* oldest one is gone
C10_Witness ==
    \E p \in DOMAIN appenders :
        /\ appenders[p].result = "True"
        /\ appenders[p].pc = "done"
        /\ Len(appenders[p].lessons) = LessonCap
        /\ Len(current_lessons) = LessonCap
        /\ current_lessons[1] = appenders[p].lesson
        /\ current_lessons[2] = appenders[p].lessons[1]
        /\ current_lessons[LessonCap] = appenders[p].lessons[LessonCap - 1]

----------------------------------------------------------------------------
(* Properties of sharing and the library (SpecShare) *)

\* the last message of `out` is the follow-up menu
ends_with_follow_up(out) ==
    /\ Len(out) > 0
    /\ out[Len(out)].text = "What next?"
    /\ out[Len(out)].keyboard = FollowUpKeyboard

\* some message of `out` has the text `text`
says(out, text) == \E i \in DOMAIN out : out[i].text = text

\* the repository cannot be used in this step
StoreDown(net) == ~GITHUB_TOKEN \/ net = "unreachable"

\* the step is /browse, the display name answer or Keep private, taken while
\* the repository is not configured or not reachable
BrowseWhileDown(u) ==
    \E net \in StoreNets : StoreDown(net) /\ BrowseCommand(u, net)
NameWhileDown(u) ==
    /\ Before(u).state = "awaiting_teacher_name"
    /\ \E text \in ShareTexts(Before(u).state) : \E env \in MessageEnvs(Before(u).state) :
          StoreDown(env.net) /\ Message(u, text, env)
KeepPrivateWhileDown(u) ==
    \E env \in CallbackEnvs(Tok("share_no", "")) :
        StoreDown(env.net) /\ Callback(u, Tok("share_no", ""), env)

\* C11: with the repository unreachable or not configured, nothing is raised:
\* the append persists nothing and reports no success, the listing of recent
\* lessons is empty, and the share flow still ends at the "What next?" menu.
C11_StoreDownIsAbsorbed ==
    [][\A u \in Users :
          /\ BrowseWhileDown(u) =>
                /\ ~raised'
                /\ says(sent', "No lessons shared yet")
          /\ (NameWhileDown(u) \/ KeepPrivateWhileDown(u)) =>
                /\ ~raised'
                /\ lessons_file' = lessons_file
                /\ ~says(sent', "Shared with the community!")
                /\ ends_with_follow_up(sent')]_vars

\* a lesson was to be shared with the token configured, the append failed,
\* and the follow-up menu is on screen
C11_Witness ==
    \E u \in Users :
        /\ GITHUB_TOKEN
        /\ u \in DOMAIN user_sessions
        /\ user_sessions[u].state = "idle"
        /\ user_sessions[u].last_lesson # None
        /\ update.kind = "message"
        /\ Len(sent) = 2
        /\ sent[1].text = "Saved! (Note: Community sharing is being set up)"
        /\ ends_with_follow_up(sent)
        /\ ~raised

\* C12: a record is appended to the store only when the user shares the
\* lesson (answers the display-name question); Keep private appends none.
C12_OnlySharingAppends ==
    [][\A u \in Users :
          lessons_file' # lessons_file =>
              (IsMessage /\ Before(u).state = "awaiting_teacher_name")]_vars

\* C13: the listing of recent lessons is exactly the first `limit` entries of
\* the stored array, in stored order.
C13_RecentIsStoredPrefix ==
    (GITHUB_TOKEN /\ lessons_file.exists /\ lessons_file.valid) =>
        \A limit \in 1..6 :
            get_recent_lessons(get_lessons_from_github(GITHUB_TOKEN, lessons_file, "ok"),
                               limit)
            = first_n(lessons_file.lessons, limit)

\* the step appends a shared record: the display name was answered and the
\* file changed
Shares(u) ==
    /\ IsMessage
    /\ Before(u).state = "awaiting_teacher_name"
    /\ lessons_file' # lessons_file

C15_ThanksOnlyWhenStored ==
    [][\A u \in Users :
          /\ says(sent', "Shared with the community!") =>
                /\ lessons_file' # lessons_file
                /\ lessons_file'.lessons[1].content = Before(u).last_lesson
          /\ (IsMessage /\ Before(u).state = "awaiting_teacher_name") =>
                After(u).last_lesson = Before(u).last_lesson]_vars

\* a lesson was shared under a display name, stored first in the file, and
\* the success message is on screen
C15_Witness ==
    \E u \in Users :
        /\ u \in DOMAIN user_sessions
        /\ user_sessions[u].last_lesson # None
        /\ update = Update("message", "Ms Rivera", "not_called")
        /\ says(sent, "Shared with the community!")
        /\ lessons_file.exists
        /\ lessons_file.lessons[1].teacher_name = "Ms Rivera"
        /\ lessons_file.lessons[1].content = user_sessions[u].last_lesson

----------------------------------------------------------------------------
(* Properties of the prompt builders (SpecPrompt) *)

\* LessonRequest.duration's default
DefaultDuration == 45

\* the call has returned / has returned with a prompt
HasReturned == generation.pc = "returned"
HasPrompt == HasReturned /\ ~generation.built.raised
PromptLines == generation.built.lines

\* the minutes the prompt's headers carry, in order
header_minutes(lines) ==
    LET h == SelectSeq(lines, LAMBDA l : l.kind = "header" /\ l.value # "")
    IN [i \in DOMAIN h |-> h[i].value]

\* opening, main activity and closing as 15%, 60% and 25% of d, rounded down
fractions_of(d) ==
    <<ToString((15 * d) \div 100), ToString((60 * d) \div 100), ToString((25 * d) \div 100)>>

\* C16: a call whose duration is not numeric does not raise: its sub-timings
\* are those of the default duration 45 and no parse error is answered.
C16_NonNumericDurationDefaults ==
    (HasReturned /\ generation.params.duration \in NonNumericDurations) =>
        /\ ~generation.built.raised
        /\ header_minutes(PromptLines) = fractions_of(DefaultDuration)
        /\ generation.response.status # "500"

\* C17: for every numeric duration d >= 0 the endpoint's prompt carries the
\* sub-timings floor(15*d/100), floor(60*d/100) and floor(25*d/100), in the
\* order opening, main activity, closing.
C17_SubTimings ==
    (HasPrompt /\ generation.caller = "api") =>
        header_minutes(PromptLines) = fractions_of(int(generation.params.duration))

\* a prompt for 20 minutes, where 20 * 0.15 and 20 * 0.6 are not exact in
\* binary64, with 3, 12 and 5 minutes
C17_Witness ==
    /\ HasPrompt
    /\ generation.caller = "api"
    /\ generation.params.duration = "20"
    /\ header_minutes(PromptLines) = <<"3", "12", "5">>

\* the section a header asks the backend to fill
section_of(title) ==
    CASE title \in {"Learning Objective", "Learning Objectives",
                    "Objetivos de Aprendizaje"} -> "objectives"
      [] title \in {"Materials Needed", "Materiales Necesarios"} -> "materials"
      [] title \in {"Opening Hook", "Lesson Introduction",
                    "Introduccion de la Leccion"} -> "opening"
      [] title \in {"Main Lesson", "Main Activity", "Actividad Principal"} -> "main activity"
      [] title \in {"Practice Activity"} -> "practice"
      [] title \in {"Closing", "Wrap-Up & Assessment", "Cierre y Evaluacion"} -> "closing"
      [] title \in {"Differentiation", "Differentiation Tips",
                    "Consejos de Diferenciacion"} -> "differentiation"
      [] title \in {"Assessment Questions", "Comprehension Questions", "Quick Check",
                    "Preguntas de Comprension"} -> "assessment"
      [] title \in {"Teacher Tips", "Teacher Tip", "Consejos para el Docente"} -> "tips"
      [] OTHER -> "other"
RequiredSections ==
    <<"objectives", "materials", "opening", "main activity", "practice", "closing",
      "differentiation", "assessment", "tips">>

\* the required sections a prompt names, in the prompt's order
sections(lines) ==
    LET h == SelectSeq(lines, LAMBDA l : l.kind = "header" /\ section_of(l.label) # "other")
    IN [i \in DOMAIN h |-> section_of(h[i].label)]

\* C18: every prompt names the nine required sections, in the stated order.
C18_NineSections ==
    HasPrompt => sections(PromptLines) = RequiredSections

\* the number of lines that interpolate `value`
occurrences(lines, value) == Cardinality({i \in DOMAIN lines : lines[i].value = value})

\* the values the materials and style lookups know
EnumeratedMaterials == {"none", "basic", "standard"}
EnumeratedStyles == {"interactive", "structured", "storytelling", "mixed"}
Asked(key) == IF key \in DOMAIN generation.request THEN generation.request[key] ELSE None

\* C19: a materials or style value outside the lookup appears in the prompt
\* as it was given.
C19_UnknownPassesThrough ==
    HasPrompt =>
        /\ (Asked("materials") \notin EnumeratedMaterials \cup {None}) =>
              occurrences(PromptLines, Asked("materials")) > 0
        /\ (Asked("style") \notin EnumeratedStyles \cup {None}) =>
              occurrences(PromptLines, Asked("style")) > 0

\* the phrases the builder of this call has for a materials / style value
phrases(fields) == {fields[i].value : i \in DOMAIN fields}
materials_phrases(call) ==
    IF call.caller = "api"
    THEN {materials_desc(call.params.language)[call.request.materials]}
    ELSE phrases(materials_line(call.request.materials))
style_phrases(call) ==
    IF call.caller = "api"
    THEN {style_desc(call.params.language)[call.request.style]}
    ELSE phrases(style_line(call.request.style))
count_of(lines, values) == Cardinality({i \in DOMAIN lines : lines[i].value \in values})

\* C20: for enumerated materials and style values the prompt holds the
\* materials phrase of that value once, the style phrase of that value once,
\* and neither raw value.
C20_EnumeratedPhrasesOnce ==
    (HasPrompt /\ Asked("materials") \in EnumeratedMaterials
               /\ Asked("style") \in EnumeratedStyles) =>
        /\ count_of(PromptLines, materials_phrases(generation)) = 1
        /\ count_of(PromptLines, style_phrases(generation)) = 1
        /\ occurrences(PromptLines, Asked("materials")) = 0
        /\ occurrences(PromptLines, Asked("style")) = 0

----------------------------------------------------------------------------
(* Properties of the renderers (SpecRender) *)

HasRendered == rendering.pc = "returned"
RenderedLines == split(rendering.content)

\* C21: the PDF renderer and the HTML renderer give every line the same
\* block type.
C21_SameBlockTypes ==
    HasRendered =>
        \A i \in DOMAIN RenderedLines :
            add_lesson_content_line(RenderedLines[i]).type
            = create_lesson_html_line(RenderedLines[i]).type

\* the block the stated rules give a line, first match first
stated_block(raw) ==
    LET line == str_strip(raw, Whitespace)
    IN IF line = <<>> THEN "blank"
       ELSE IF str_startswith(line, <<"#", "#", " ">>) THEN "heading"
       ELSE IF str_startswith(line, <<"*", "*">>) /\ str_endswith(line, <<"*", "*">>)
       THEN "emphasized"
       ELSE IF str_startswith(line, <<"-", " ">>) \/ str_startswith(line, <<"*", " ">>)
       THEN "bullet"
       ELSE IF Len(line) >= 2 /\ line[1] \in Digits /\ line[2] \in {".", ")", ":"}
       THEN "numbered"
       ELSE "paragraph"

\* C22: every renderer gives every line the block type of the first matching
\* stated rule (blank, '## ' heading, '**...**' emphasized, '- ' or '* '
\* bullet, digit and '.', ')' or ':' numbered, else paragraph).
C22_StatedRules ==
    HasRendered =>
        \A i \in DOMAIN RenderedLines :
            rendering.blocks[i].type = stated_block(RenderedLines[i])

\* a text with each character outside ASCII replaced by its lookup entry,
\* or by one space when the lookup has none
transliterated(text, replacements) ==
    LET result == replace_each(text, replacements)
    IN [i \in DOMAIN result |-> IF result[i] \in NonAscii THEN " " ELSE result[i]]
lookup_of(renderer) ==
    IF renderer = "pdf" THEN safe_text_replacements ELSE ascii_only_replacements

\* C23: what a PDF renderer emits holds ASCII characters only, a paragraph
\* being its line with each character outside ASCII replaced by its lookup
\* entry, or by one space when it has none.
C23_PdfTextIsAscii ==
    (HasRendered /\ rendering.renderer \in {"pdf", "api_pdf"}) =>
        \A i \in DOMAIN rendering.blocks :
            LET block == rendering.blocks[i] IN
            /\ \A k \in DOMAIN block.text : block.text[k] \notin NonAscii
            /\ (block.type = "paragraph" /\ "*" \notin {block.text[k] : k \in DOMAIN block.text}) =>
                  block.text = transliterated(str_strip(RenderedLines[i], Whitespace),
                                              lookup_of(rendering.renderer))

----------------------------------------------------------------------------
(* Properties of the session map (SpecUsers) *)

EventOf(u) == UserQuick(u) \/ UserCallback(u) \/ UserMessage(u)

\* C24: an event of one user leaves the session record of every other user as
\* it was (and creates none for them), whatever events of the two users came
\* before; a session in the map is never removed.
C24_SessionsIsolated ==
    [][\A u \in TwoUsers :
          EventOf(u) =>
              /\ u \in DOMAIN user_sessions'
              /\ \A v \in TwoUsers \ {u} :
                    IF v \in DOMAIN user_sessions
                    THEN v \in DOMAIN user_sessions' /\ user_sessions'[v] = user_sessions[v]
                    ELSE v \notin DOMAIN user_sessions']_vars

\* u2 has just been given a lesson while u1, already in the map, awaits the
\* display name with a lesson of its own
C24_Witness ==
    /\ DOMAIN user_sessions = TwoUsers
    /\ user_sessions["u1"].state = "awaiting_teacher_name"
    /\ user_sessions["u1"].last_lesson # None
    /\ user_sessions["u2"].state = "lesson_generated"
    /\ update.kind = "message"
    /\ update.gen = "L1"

----------------------------------------------------------------------------
(* Properties of generation (Spec) *)

\* the step handles a request that asks for a lesson: a format button, a
\* quick-lesson topic, or a tweak request
GenerationRequest(u) ==
    \/ IsCallback /\ callback_branch(update'.data) = "format_"
    \/ IsMessage /\ Before(u).state \in {"awaiting_quick_input", "awaiting_tweak"}

\* C25: a step that handles a generation request asks the backend exactly
\* once, whether the backend answers or fails and whatever was generated
\* before; no other step asks it.
C25_OneBackendCall ==
    [][\A u \in Users :
          IF GenerationRequest(u)
          THEN /\ backend_calls' = 1
               /\ generation'.pc = "returned"
               /\ update'.gen \in GenOutcomes
          ELSE backend_calls' = 0]_vars

\* a format button was pressed by a teacher who already held lesson L1, the
\* backend was asked once more and answered L1 again
C25_Witness ==
    \E u \in Users :
        /\ u \in DOMAIN user_sessions
        /\ update.kind = "callback"
        /\ callback_branch(update.data) = "format_"
        /\ update.gen = "L1"
        /\ user_sessions[u].last_lesson = "L1"
        /\ backend_calls = 1
        /\ strays > 0

----------------------------------------------------------------------------
(* Properties of the share decision (Spec) *)

\* C26: with a lesson generated, Keep private leaves the session idle, Share
\* leaves it awaiting the display name, and the display name leaves it idle.
C26_ShareFlowEndsIdle ==
    [][\A u \in Users :
          /\ (IsCallback /\ Before(u).state = "lesson_generated"
                         /\ is_token(update'.data, "share_no")) =>
                After(u).state = "idle"
          /\ (IsCallback /\ Before(u).state = "lesson_generated"
                         /\ is_token(update'.data, "share_yes")) =>
                After(u).state = "awaiting_teacher_name"
          /\ (IsMessage /\ Before(u).state = "awaiting_teacher_name") =>
                After(u).state = "idle"]_vars

----------------------------------------------------------------------------
(* Properties of the wizard's writes (SpecWizard) *)

\* the parameter a wizard button answers
WizardBranches ==
    {"subject_", "topic_", "ages_", "duration_", "country_", "materials_", "style_",
     "depth_"}
field_of(branch) ==
    CASE branch = "subject_" -> "subject"
      [] branch = "topic_" -> "topic"
      [] branch = "ages_" -> "ages"
      [] branch = "duration_" -> "duration"
      [] branch = "country_" -> "country"
      [] branch = "materials_" -> "materials"
      [] branch = "style_" -> "style"
      [] branch = "depth_" -> "depth"

\* the state in which the wizard asks for a parameter
question_state(branch) ==
    CASE branch = "subject_" -> "awaiting_subject"
      [] branch = "topic_" -> "awaiting_topic"
      [] branch = "ages_" -> "awaiting_ages"
      [] branch = "duration_" -> "awaiting_duration"
      [] branch = "country_" -> "awaiting_country"
      [] branch = "materials_" -> "awaiting_materials"
      [] branch = "style_" -> "awaiting_style"
      [] branch = "depth_" -> "awaiting_depth"

\* the step takes a selection for the question on screen (the "Other" and
\* "Custom" buttons, which ask for typed text instead, are not selections)
WizardSelection(u) ==
    /\ IsCallback
    /\ callback_branch(update'.data) \in WizardBranches
    /\ Before(u).state = question_state(callback_branch(update'.data))
    /\ strip_prefix(update'.data) \notin {"other", "custom"}

\* C27: a selection for the question on screen writes the parameter that
\* question asks for, and no other parameter changes.
C27_OneFieldWritten ==
    [][\A u \in Users :
          WizardSelection(u) =>
              After(u).params = dict_set(Before(u).params,
                                         field_of(callback_branch(update'.data)),
                                         strip_prefix(update'.data))]_vars

----------------------------------------------------------------------------
(* Properties of the stored records (SpecRecord) *)

\* the parameters with which the run's lesson text was generated: the typed
\* topic and the depth chosen for it
generated_with(content) ==
    IF content = "L1"
    THEN dict_set(dict_set(EmptyDict, "topic", "Fractions"), "depth", "standard")
    ELSE EmptyDict

RecordFields == {"subject", "topic", "ages", "duration", "country", "materials", "style"}

\* C28: a record built for storing carries, in its subject, topic, ages,
\* duration, country, materials and style, the parameters with which its
\* content was generated, whatever was typed or opened between the generation
\* and the share decision.
C28_RecordOfGeneration ==
    \A i \in DOMAIN lessons_file.lessons :
        LET l == lessons_file.lessons[i] IN
        l.id = "les_b" =>
            \A k \in RecordFields :
                l[k] = create_lesson_record(generated_with(l.content), l.content,
                                            l.teacher_name, l.public, l.id)[k]

\* C30: the run's one generated lesson is in the store at most once, whatever
\* share_yes and share_no presses and display names follow it.
C30_AppendedOnce == Len(recorded(lessons_file.lessons)) <= 1

----------------------------------------------------------------------------
(* Properties of the share-pending flag (Spec) *)

\* C31: in every session the share-pending flag is set only while the state
\* is awaiting_teacher_name.
C31_PendingOnlyWhileNaming ==
    \A u \in DOMAIN user_sessions :
        user_sessions[u].pending_share => user_sessions[u].state = "awaiting_teacher_name"

----------------------------------------------------------------------------
(* Properties of private records (SpecShare) *)

\* the ids of the records stored with public = false
private_ids ==
    {lessons_file.lessons[i].id :
        i \in {j \in DOMAIN lessons_file.lessons : ~lessons_file.lessons[j].public}}

\* the last update was a press of a "get_lesson_<id>" button
OpenedLesson(id) ==
    /\ update.kind = "callback"
    /\ callback_branch(update.data) = "get_lesson_"
    /\ strip_prefix(update.data) = id

\* C32: a record stored with public = false is never shown or delivered by a
\* browse operation: no listing or search result offers a button for it, and
\* opening a lesson by its id does not send its content.
C32_PrivateNeverShown ==
    \A id \in private_ids :
        /\ \A i \in DOMAIN sent : Tok("get_lesson_", id) \notin sent[i].keyboard
        /\ OpenedLesson(id) => \A i \in DOMAIN sent : sent[i].lesson = NoLesson

----------------------------------------------------------------------------
(* Properties of tweaks and of the last generated text (Spec) *)

\* the step handles a message typed while a tweak is awaited
TweakMessage(u) == IsMessage /\ Before(u).state = "awaiting_tweak"

\* C33: a tweak message of a session that holds no generated lesson makes no
\* request to the generation backend.
C33_TweakNeedsLesson ==
    [][\A u \in Users :
          (TweakMessage(u) /\ Before(u).last_lesson = None) => backend_calls' = 0]_vars

\* C34: the session's last generated text changes only in a step whose
\* backend request was answered, and then to that answer; when a generation
\* or tweak request fails, the text is the one held before.
C34_LastLessonKept ==
    [][\A u \in Users :
          /\ After(u).last_lesson # Before(u).last_lesson =>
                /\ backend_calls' = 1
                /\ update'.gen \in LessonTexts
                /\ After(u).last_lesson = update'.gen
          /\ update'.gen = "error" => After(u).last_lesson = Before(u).last_lesson]_vars

\* a session holding a lesson asked for a tweak (or another lesson), the
\* backend failed, and the lesson is still held
C34_Witness ==
    /\ update.gen = "error"
    /\ backend_calls = 1
    /\ \E u \in DOMAIN user_sessions : user_sessions[u].last_lesson \in LessonTexts

----------------------------------------------------------------------------
(* Properties of the HTML list markup (SpecHtml) *)

\* the tags from position i on are balanced, `open` telling whether a list is
\* open before them: <ul> only when none is open, <li> only inside a list,
\* any other block only outside, and no list open at the end
RECURSIVE balanced(_, _, _)
balanced(tags, i, open) ==
    IF i > Len(tags) THEN ~open
    ELSE CASE tags[i] = "<ul>" -> ~open /\ balanced(tags, i + 1, TRUE)
           [] tags[i] = "</ul>" -> open /\ balanced(tags, i + 1, FALSE)
           [] tags[i] = "<li>" -> open /\ balanced(tags, i + 1, TRUE)
           [] OTHER -> ~open /\ balanced(tags, i + 1, FALSE)

\* C35: for every input text the list markup of the HTML renderer is
\* balanced: a <ul> is opened only when no list is open, every <li> is inside
\* a list, every list is closed before a block that is not a list item, and
\* no list is open at the end.
C35_ListsBalanced ==
    (HasRendered /\ rendering.renderer = "html") => balanced(rendering.markup, 1, FALSE)

\* two items in one list, closed before the blank line that follows
C35_Witness ==
    /\ HasRendered
    /\ rendering.renderer = "html"
    /\ rendering.markup = <<"<ul>", "<li>", "<li>", "</ul>", "<br>">>

----------------------------------------------------------------------------
(* Properties of the sub-timings (SpecDuration) *)

\* C36: for every numeric duration d >= 0 the three sub-timings written into
\* the prompt (opening, main activity, closing) sum to at most d and to at
\* least d - 2.
C36_SubTimingsSum ==
    generation.pc = "returned" =>
        LET d == int_of_digits(generation.duration)
            m == generation.minutes
            total == big_add(big_add(m[1], m[2]), m[3])
        IN /\ big_le(total, d)
           /\ big_le(d, big_add(total, big_of(2)))

\* m is p percent of d, rounded down
is_floor_percent(m, p, d) ==
    /\ big_le(scale(m, 100, 0), scale(d, p, 0))
    /\ ~big_le(scale(big_add(m, <<1>>), 100, 0), scale(d, p, 0))

\* C17, on durations of any size: for every numeric duration d >= 0 the
\* endpoint's prompt carries the sub-timings floor(15*d/100), floor(60*d/100)
\* and floor(25*d/100), in the order opening, main activity, closing.
C17_SubTimingsAnySize ==
    generation.pc = "returned" =>
        LET d == int_of_digits(generation.duration)
            m == generation.minutes
        IN /\ is_floor_percent(m[1], 15, d)
           /\ is_floor_percent(m[2], 60, d)
           /\ is_floor_percent(m[3], 25, d)

----------------------------------------------------------------------------
(* Properties of the chat delivery (SpecDelivery) *)

\* the chat messages of the last update that carry lesson text, and the
\* chunks among them
lesson_messages ==
    SelectSeq(sent, LAMBDA m : m.kind = "message" /\ m.lesson # NoLesson)
lesson_chunks == SelectSeq(lesson_messages, LAMBDA m : m.text = "chunk")
message_length(m) == m.extra + m.lesson[3] - m.lesson[2]

\* C37: every chat message that carries lesson content is at most 4000
\* characters long, and the chunks of a split lesson, in the order sent, are
\* the lesson from its first character to its last, each piece once.
C37_ChatDeliveryWhole ==
    /\ \A i \in DOMAIN lesson_messages : message_length(lesson_messages[i]) <= 4000
    /\ lesson_chunks # <<>> =>
          /\ lesson_chunks[1].lesson[2] = 0
          /\ \A i \in 1..(Len(lesson_chunks) - 1) :
                /\ lesson_chunks[i].lesson[1] = lesson_chunks[i + 1].lesson[1]
                /\ lesson_chunks[i].lesson[3] = lesson_chunks[i + 1].lesson[2]
          /\ lesson_chunks[Len(lesson_chunks)].lesson[3]
                = len(lesson_chunks[1].lesson[1])

====
